---- MODULE Spec2Model ----
(***************************************************************************)
(* A model of the organisational core of the photo organizer:              *)
(*   - the folder-name / path pattern detector (folderDetectionService),   *)
(*   - the state reconciler of projectService (buildPhotosFromHandle,      *)
(*     getState, saveState) and loadProject of useProjectState,            *)
(*   - the ordering engine (photoOrdering: sortPhotos, navigatePhotos).    *)
(*                                                                         *)
(* JavaScript strings are sequences of one-character strings, so that      *)
(* toLowerCase, split, includes and the regular expressions are computed   *)
(* rather than assumed.  JavaScript's null and undefined are the records   *)
(* Null and Undef; a present value v of a nullable field is Some(v).       *)
(***************************************************************************)
EXTENDS Integers, Sequences, FiniteSets, TLC

(***************************************************************************)
(* Values                                                                  *)
(***************************************************************************)
Null == [k |-> "null"]
Undef == [k |-> "undefined"]
Some(v) == [k |-> "some", v |-> v]
IsSome(x) == x.k = "some"

(***************************************************************************)
(* Characters and strings                                                  *)
(***************************************************************************)
UpperLetters ==
  <<"A","B","C","D","E","F","G","H","I","J","K","L","M",
    "N","O","P","Q","R","S","T","U","V","W","X","Y","Z">>
LowerLetters ==
  <<"a","b","c","d","e","f","g","h","i","j","k","l","m",
    "n","o","p","q","r","s","t","u","v","w","x","y","z">>
Digits == <<"0","1","2","3","4","5","6","7","8","9">>

IndexIn(c, seq) == IF \E i \in 1..Len(seq) : seq[i] = c
                   THEN CHOOSE i \in 1..Len(seq) : seq[i] = c
                   ELSE 0

LowerChar(c) == IF IndexIn(c, UpperLetters) # 0
                THEN LowerLetters[IndexIn(c, UpperLetters)] ELSE c
UpperChar(c) == IF IndexIn(c, LowerLetters) # 0
                THEN UpperLetters[IndexIn(c, LowerLetters)] ELSE c
IsDigit(c) == IndexIn(c, Digits) # 0
DigitVal(c) == IndexIn(c, Digits) - 1
IsAlnumLower(c) == IndexIn(c, LowerLetters) # 0 \/ IsDigit(c)

toLowerCase(s) == [i \in 1..Len(s) |-> LowerChar(s[i])]

startsWith(s, p) == Len(s) >= Len(p) /\ SubSeq(s, 1, Len(p)) = p
endsWith(s, p) == Len(s) >= Len(p) /\ SubSeq(s, Len(s) - Len(p) + 1, Len(s)) = p
includes(s, p) == \E i \in 1..(Len(s) - Len(p) + 1) : SubSeq(s, i, i + Len(p) - 1) = p

\* String.prototype.trim on the blanks the model's strings can hold.
RECURSIVE trim(_)
trim(s) == IF s # <<>> /\ s[1] = " " THEN trim(Tail(s))
           ELSE IF s # <<>> /\ s[Len(s)] = " " THEN trim(SubSeq(s, 1, Len(s) - 1))
           ELSE s

\* s.replace(/[^a-z0-9]+/g, ' '): every maximal run of other characters
\* becomes one blank.
RECURSIVE ReplaceNonAlnum(_, _)
ReplaceNonAlnum(s, inRun) ==
  IF s = <<>> THEN <<>>
  ELSE IF IsAlnumLower(s[1]) THEN <<s[1]>> \o ReplaceNonAlnum(Tail(s), FALSE)
  ELSE IF inRun THEN ReplaceNonAlnum(Tail(s), TRUE)
  ELSE <<" ">> \o ReplaceNonAlnum(Tail(s), TRUE)

\* path.split(/[\\/]/).filter(Boolean)
RECURSIVE SplitFrom(_, _)
SplitFrom(s, cur) ==
  IF s = <<>> THEN (IF cur = <<>> THEN <<>> ELSE <<cur>>)
  ELSE IF s[1] \in {"/", "\\"}
       THEN (IF cur = <<>> THEN <<>> ELSE <<cur>>) \o SplitFrom(Tail(s), <<>>)
       ELSE SplitFrom(Tail(s), Append(cur, s[1]))
SplitPath(path) == SplitFrom(path, <<>>)

\* name.split('.').pop()?.toLowerCase() || ''
RECURSIVE LastDotPiece(_, _)
LastDotPiece(s, cur) ==
  IF s = <<>> THEN cur
  ELSE IF s[1] = "." THEN LastDotPiece(Tail(s), <<>>)
  ELSE LastDotPiece(Tail(s), Append(cur, s[1]))
Extension(name) == toLowerCase(LastDotPiece(name, <<>>))

\* `${prefix}/${name}`, or name alone for an empty prefix
JoinPath(prefix, name) == IF prefix = <<>> THEN name ELSE prefix \o <<"/">> \o name

\* parseInt(digits, 10) of a run of digits
RECURSIVE ParseInt(_)
ParseInt(ds) ==
  IF Len(ds) = 1 THEN DigitVal(ds[1])
  ELSE 10 * ParseInt(SubSeq(ds, 1, Len(ds) - 1)) + DigitVal(ds[Len(ds)])

\* The number of digits at the front of s.
RECURSIVE DigitRun(_)
DigitRun(s) == IF s # <<>> /\ IsDigit(s[1]) THEN 1 + DigitRun(Tail(s)) ELSE 0

\* String.prototype.localeCompare, as the sign of the comparison under the
\* root collation on the characters ranked here: blank, punctuation, digits,
\* letters; the strings are compared without regard to case first, and two
\* strings that differ in case only have the lower case first.
CollationRank(c) ==
  IF IsDigit(c) THEN 10 + DigitVal(c)
  ELSE IF IndexIn(LowerChar(c), LowerLetters) # 0
  THEN 20 + IndexIn(LowerChar(c), LowerLetters)
  ELSE IF c = " " THEN 1
  ELSE IF c = "_" THEN 2
  ELSE IF c = "-" THEN 3
  ELSE IF c = "." THEN 4
  ELSE IF c = "/" THEN 5
  ELSE 6
\* The sign at the first position of hits, 0 for none.
SignAtFirst(hits, less(_)) ==
  IF hits = {} THEN 0
  ELSE IF less(CHOOSE i \in hits : \A j \in hits : i <= j) THEN -1 ELSE 1
localeCompare(a, b) ==
  LET common == 1..(IF Len(a) < Len(b) THEN Len(a) ELSE Len(b))
      byRank == SignAtFirst({i \in common : CollationRank(a[i]) # CollationRank(b[i])},
                            LAMBDA i : CollationRank(a[i]) < CollationRank(b[i]))
      byCase == SignAtFirst({i \in common : a[i] # b[i]},
                            LAMBDA i : IndexIn(a[i], LowerLetters) # 0)
  IN IF byRank # 0 THEN byRank
     ELSE IF Len(a) # Len(b) THEN (IF Len(a) < Len(b) THEN -1 ELSE 1)
     ELSE byCase

(***************************************************************************)
(* Pattern detector (folderDetectionService)                               *)
(***************************************************************************)
\* [\s_-]
DaySeparators == {" ", "\t", "_", "-"}
\* HYPHEN_PATTERN: [\s_\-] and the en dash, the em dash and the minus sign,
\* written here as named characters.
HYPHEN_PATTERN == {" ", "\t", "_", "-", "<en-dash>", "<em-dash>", "<minus>"}

\* The number of HYPHEN_PATTERN characters at the front of s.
RECURSIVE HyphenRun(_)
HyphenRun(s) == IF s # <<>> /\ s[1] \in HYPHEN_PATTERN THEN 1 + HyphenRun(Tail(s)) ELSE 0

Drop(s, n) == SubSeq(s, n + 1, Len(s))

\* /^(?:day|d)[\s_-]?(\d{1,2})(?:[^\d]|$)/i after a prefix of plen characters:
\* an optional separator, then a run of exactly one or two digits.
DayPrefixAfter(s, plen) ==
  LET r0 == Drop(s, plen)
      r1 == IF r0 # <<>> /\ r0[1] \in DaySeparators THEN Tail(r0) ELSE r0
      n == DigitRun(r1)
  IN IF n \in {1, 2} THEN Some(ParseInt(SubSeq(r1, 1, n))) ELSE Null

\* The alternation tries "day" before "d"; the first alternative that lets the
\* rest of the pattern match gives the captured number.
DayAlternatives(viaDay, viaD) == IF IsSome(viaDay) THEN viaDay ELSE viaD
DAY_PREFIX_PATTERN(s) ==
  DayAlternatives(
    IF startsWith(toLowerCase(s), <<"d", "a", "y">>) THEN DayPrefixAfter(s, 3) ELSE Null,
    IF startsWith(toLowerCase(s), <<"d">>) THEN DayPrefixAfter(s, 1) ELSE Null)

\* /^(\d{1,2})[\s_-]/
NUMERIC_PREFIX_PATTERN(s) ==
  LET n == DigitRun(s)
  IN IF n \in {1, 2} /\ Len(s) > n /\ s[n + 1] \in DaySeparators
     THEN Some(ParseInt(SubSeq(s, 1, n))) ELSE Null

\* /(\d{4})<sep>(\d{2})<sep>(\d{2})/ : the leftmost match, as [y, m, d].
IsoAt(s, i, sep) ==
  /\ i + 9 <= Len(s)
  /\ \A j \in {0, 1, 2, 3, 5, 6, 8, 9} : IsDigit(s[i + j])
  /\ s[i + 4] = sep /\ s[i + 7] = sep
\* The least index of a set of indices, 0 for the empty set (findIndex's -1).
FirstIndex(hits) == IF hits = {} THEN 0 ELSE CHOOSE i \in hits : \A j \in hits : i <= j
IsoGroups(s, i) ==
  IF i = 0 THEN Null
  ELSE Some([y |-> ParseInt(SubSeq(s, i, i + 3)),
             m |-> ParseInt(SubSeq(s, i + 5, i + 6)),
             d |-> ParseInt(SubSeq(s, i + 8, i + 9))])
IsoMatch(s, sep) == IsoGroups(s, FirstIndex({i \in 1..Len(s) : IsoAt(s, i, sep)}))
ISO_DATE_PATTERN(s) == IsoMatch(s, "-")
ISO_DATE_PATTERN_UNDERSCORES(s) == IsoMatch(s, "_")

\* Days since 1970-01-01 of a civil date (the date part of Date.getTime()).
DaysFromCivil(date) ==
  LET y == IF date.m <= 2 THEN date.y - 1 ELSE date.y
      era == y \div 400
      yoe == y - era * 400
      mp == (date.m + 9) % 12
      doy == (153 * mp + 2) \div 5 + date.d - 1
      doe == yoe * 365 + yoe \div 4 - yoe \div 100 + doy
  IN era * 146097 + doe - 719468

\* new Date('YYYY-MM-DD') is an invalid date outside these ranges.
ValidDate(date) == date.m \in 1..12 /\ date.d \in 1..31

\* calculateDayFromDate(dateStr, tripStart): tripStart is Undef or Some(date).
calculateDayFromDate(date, tripStart) ==
  LET start == IF IsSome(tripStart) THEN tripStart.v ELSE date
  IN IF ~ValidDate(date) \/ ~ValidDate(start) THEN Null
     ELSE Some(DaysFromCivil(date) - DaysFromCivil(start) + 1)

NoDetection == [day |-> Null, pattern |-> "none", confidence |-> "none"]

\* extractDayFromFolderName: NoDetection stands for the null result.
\* The day of an ISO match, Null when the pattern did not match or the date
\* is invalid.
IsoDay(iso, tripStart) ==
  IF IsSome(iso) THEN calculateDayFromDate(iso.v, tripStart) ELSE Null

\* A chain that tries the numeric prefix before the ISO dates.
DayFromMatches_NumericFirst(dayPrefix, day1, day2, numeric, isoConf) ==
  IF IsSome(dayPrefix) /\ dayPrefix.v >= 1 /\ dayPrefix.v <= 31
  THEN [day |-> dayPrefix, pattern |-> "day_prefix", confidence |-> "high"]
  ELSE IF IsSome(numeric) /\ numeric.v >= 1 /\ numeric.v <= 31
  THEN [day |-> numeric, pattern |-> "numeric_prefix", confidence |-> "medium"]
  ELSE IF IsSome(day1)
  THEN [day |-> day1, pattern |-> "iso_date", confidence |-> isoConf]
  ELSE IF IsSome(day2)
  THEN [day |-> day2, pattern |-> "iso_date", confidence |-> isoConf]
  ELSE NoDetection

\* The chain of tests of extractDayFromFolderName over the four matches.
DayFromMatches(dayPrefix, day1, day2, numeric, isoConf) ==
  IF IsSome(dayPrefix) /\ dayPrefix.v >= 1 /\ dayPrefix.v <= 31
  THEN [day |-> dayPrefix, pattern |-> "day_prefix", confidence |-> "high"]
  ELSE IF IsSome(day1)
  THEN [day |-> day1, pattern |-> "iso_date", confidence |-> isoConf]
  ELSE IF IsSome(day2)
  THEN [day |-> day2, pattern |-> "iso_date", confidence |-> isoConf]
  ELSE IF IsSome(numeric) /\ numeric.v >= 1 /\ numeric.v <= 31
  THEN [day |-> numeric, pattern |-> "numeric_prefix", confidence |-> "medium"]
  ELSE NoDetection

\* extractDayFromFolderName: NoDetection stands for the null result.
extractDayFromFolderName(folderName, tripStart) ==
  DayFromMatches(DAY_PREFIX_PATTERN(folderName),
                 IsoDay(ISO_DATE_PATTERN(folderName), tripStart),
                 IsoDay(ISO_DATE_PATTERN_UNDERSCORES(folderName), tripStart),
                 NUMERIC_PREFIX_PATTERN(folderName),
                 IF IsSome(tripStart) THEN "high" ELSE "medium")

\* [A-MX] under the i flag
BucketLetter(c) ==
  LET u == UpperChar(c)
  IN (IndexIn(u, UpperLetters) \in 1..13) \/ u = "X"

OptHyphen == {<<>>} \cup {<<h>> : h \in HYPHEN_PATTERN}

\* The category alternatives of generateBucketStandardPattern, lower-cased.
BucketCategories ==
  LET establishing == <<"e","s","t","a","b","l","i","s","h","i","n","g">>
      people == <<"p","e","o","p","l","e">>
      culture == <<"c","u","l","t","u","r","e">>
      detail == <<"d","e","t","a","i","l">>
      action == <<"a","c","t","i","o","n">>
      moment == <<"m","o","m","e","n","t">>
      transition == <<"t","r","a","n","s","i","t","i","o","n">>
      mood == <<"m","o","o","d">>
      food == <<"f","o","o","d">>
      archive == <<"a","r","c","h","i","v","e">>
  IN {establishing, people, culture, detail, action, moment, transition,
      mood, food, archive}
     \cup {culture \o h \o detail : h \in OptHyphen}
     \cup {action \o h \o moment : h \in OptHyphen}
     \cup {mood \o h \o food : h \in OptHyphen}
     \cup {food \o h \o mood : h \in OptHyphen}

\* ^([A-MX])(?:[hyphens]+)(categories)$ under the i flag
BUCKET_STANDARD_PATTERN(s) ==
  /\ Len(s) >= 3
  /\ BucketLetter(s[1])
  /\ HyphenRun(Tail(s)) >= 1
  /\ toLowerCase(Drop(s, 1 + HyphenRun(Tail(s)))) \in BucketCategories

\* /^([A-MX])$/i
BUCKET_LETTER_PATTERN(s) == Len(s) = 1 /\ BucketLetter(s[1])

\* ^([A-MX])(?:[hyphens]+)(.+)$ under the i flag
BUCKET_CUSTOM_PATTERN(s) ==
  Len(s) >= 3 /\ BucketLetter(s[1]) /\ s[2] \in HYPHEN_PATTERN

\* /^(0[1-6])$/
BUCKET_NUMERIC_PATTERN(s) ==
  Len(s) = 2 /\ s[1] = "0" /\ IsDigit(s[2]) /\ DigitVal(s[2]) \in 1..6

NUMERIC_TO_BUCKET_MAP(s) == <<"A", "B", "C", "D", "E", "M">>[DigitVal(s[2])]

NoBucket == [bucket |-> Null, confidence |-> "none", pattern |-> "none"]

\* detectBucketFromFolderName: NoBucket stands for the null result.
detectBucketFromFolderName(folderName) ==
  IF BUCKET_STANDARD_PATTERN(folderName)
  THEN [bucket |-> Some(UpperChar(folderName[1])), confidence |-> "high",
        pattern |-> "standard"]
  ELSE IF BUCKET_LETTER_PATTERN(folderName)
  THEN [bucket |-> Some(UpperChar(folderName[1])), confidence |-> "high",
        pattern |-> "letter"]
  ELSE IF BUCKET_CUSTOM_PATTERN(folderName)
  THEN [bucket |-> Some(UpperChar(folderName[1])), confidence |-> "medium",
        pattern |-> "custom"]
  ELSE IF BUCKET_NUMERIC_PATTERN(folderName)
  THEN [bucket |-> Some(NUMERIC_TO_BUCKET_MAP(folderName)), confidence |-> "low",
        pattern |-> "numeric"]
  ELSE NoBucket

DEFAULT_DAYS_FOLDER == <<"0","1","_","D","A","Y","S">>

\* The first index of segs that satisfies the days-folder test, 0 for -1.
DaysIndex(segs, daysFolder) ==
  FirstIndex({i \in 1..Len(segs) :
                toLowerCase(segs[i]) \in {toLowerCase(daysFolder),
                                          <<"0","1","_","d","a","y","s">>,
                                          <<"d","a","y","s">>}})

\* The first index of segs from which a day can be extracted, 0 for none.
FirstDayIndex(segs) ==
  FirstIndex({i \in 1..Len(segs) : IsSome(extractDayFromFolderName(segs[i], Undef).day)})

\* An overall confidence that follows the day's alone.
OverallConfidence_DayOnly(detectedDay, detectedBucket, dayConfidence, bucketConfidence) ==
  IF IsSome(detectedDay) THEN dayConfidence ELSE "none"

OverallConfidence(detectedDay, detectedBucket, dayConfidence, bucketConfidence) ==
  IF IsSome(detectedDay) /\ IsSome(detectedBucket)
  THEN IF dayConfidence = "high" /\ bucketConfidence = "high" THEN "high"
       ELSE IF dayConfidence # "none" /\ bucketConfidence # "none" THEN "medium"
       ELSE "low"
  ELSE IF IsSome(detectedDay) THEN dayConfidence
  ELSE "none"

\* analyzePathStructure(filePath, {daysFolder})
\* filePath.split(/[\\/]/).slice(0, -1)
PathSegmentsOf(rawSegments) ==
  IF Len(rawSegments) > 0 THEN SubSeq(rawSegments, 1, Len(rawSegments) - 1) ELSE <<>>

\* The returned analysis, from the day and bucket detections.
PathAnalysis(pathSegments, dayDetection, dayConfidence, bucketDetection) ==
  [detectedDay |-> dayDetection.day,
   detectedBucket |-> bucketDetection.bucket,
   isPreOrganized |-> IsSome(dayDetection.day) /\ IsSome(bucketDetection.bucket),
   confidence |-> OverallConfidence(dayDetection.day, bucketDetection.bucket,
                                    dayConfidence, bucketDetection.confidence),
   pathSegments |-> pathSegments]

\* The bucket is looked for in the segment after the day folder; the day
\* confidence is the detector's under the days folder and lowered elsewhere.
AnalyzeDayFolder(pathSegments, canonical, dayIdx, dayDetection) ==
  PathAnalysis(pathSegments, dayDetection,
               IF ~IsSome(dayDetection.day) THEN "none"
               ELSE IF canonical THEN dayDetection.confidence
               ELSE IF dayDetection.confidence = "high" THEN "medium"
               ELSE "low",
               IF IsSome(dayDetection.day) /\ dayIdx + 1 <= Len(pathSegments)
               THEN detectBucketFromFolderName(pathSegments[dayIdx + 1])
               ELSE NoBucket)

\* dayIdx is the segment the day is read from, 0 for none.
AnalyzeAt(pathSegments, canonical, dayIdx) ==
  AnalyzeDayFolder(pathSegments, canonical, dayIdx,
                   IF dayIdx # 0
                   THEN extractDayFromFolderName(pathSegments[dayIdx], Undef)
                   ELSE NoDetection)

\* Under the days folder the next segment is the day folder; otherwise the
\* first segment that yields a day is.
AnalyzeSegments(pathSegments, daysIndex) ==
  AnalyzeAt(pathSegments,
            daysIndex # 0 /\ daysIndex < Len(pathSegments),
            IF daysIndex # 0 /\ daysIndex < Len(pathSegments)
            THEN daysIndex + 1 ELSE FirstDayIndex(pathSegments))

\* analyzePathStructure(filePath, {daysFolder})
analyzePathStructure(filePath, daysFolder) ==
  AnalyzeSegments(PathSegmentsOf(SplitPath(filePath)),
                  DaysIndex(PathSegmentsOf(SplitPath(filePath)), daysFolder))

(***************************************************************************)
(* Project service: scanning (collectFiles, buildPhotosFromHandle)         *)
(***************************************************************************)
SUPPORTED_EXT ==
  {<<"j","p","g">>, <<"j","p","e","g">>, <<"p","n","g">>, <<"h","e","i","c">>,
   <<"w","e","b","p">>, <<"m","p","4">>, <<"m","o","v">>, <<"w","e","b","m">>,
   <<"a","v","i">>, <<"m","k","v">>}

isSupportedFile(name) == Extension(name) \in SUPPORTED_EXT

shouldSkipFile(name) ==
  LET lower == toLowerCase(name)
  IN \/ startsWith(name, <<".">>)
     \/ startsWith(name, <<".", "_">>)
     \/ lower = <<"t","h","u","m","b","s",".","d","b">>
     \/ lower = <<"d","e","s","k","t","o","p",".","i","n","i">>

\* A directory tree is held as the list of its files in the order in which
\* collectFiles meets them (entries() order, depth first); each file carries
\* the names of the directories above it.  collectFiles does not descend into
\* a directory whose name starts with '.', skips system files and unsupported
\* extensions, and joins the relative path.
RECURSIVE PrefixOf(_, _)
PrefixOf(prefix, dirs) ==
  IF dirs = <<>> THEN prefix ELSE PrefixOf(JoinPath(prefix, dirs[1]), Tail(dirs))
JoinDirs(dirs, name) == JoinPath(PrefixOf(<<>>, dirs), name)

RECURSIVE collectFiles(_)
collectFiles(tree) ==
  IF tree = <<>> THEN <<>>
  ELSE LET f == tree[1]
           hiddenDir == \E i \in 1..Len(f.dirs) : startsWith(f.dirs[i], <<".">>)
           rest == collectFiles(Tail(tree))
       IN IF hiddenDir \/ shouldSkipFile(f.name) \/ ~isSupportedFile(f.name)
          THEN rest
          ELSE <<[path |-> JoinDirs(f.dirs, f.name), file |-> f]>> \o rest

\* A fingerprint of the name and the timestamp only.
fileFingerprint_NoSize(file) == <<file.name, file.lastModified>>

\* `${originalName}|${timestamp}|${file.size}`: the name and the two numbers
\* determine the string and the string determines them.
fileFingerprint(file) == <<file.name, file.lastModified, file.size>>

\* photos.sort((a, b) => a.timestamp - b.timestamp): Array.prototype.sort is
\* stable.
RECURSIVE SortByTimestamp(_)
SortByTimestamp(photos) ==
  IF photos = <<>> THEN <<>>
  ELSE LET sorted == SortByTimestamp(SubSeq(photos, 1, Len(photos) - 1))
           p == photos[Len(photos)]
           k == Cardinality({i \in 1..Len(sorted) : sorted[i].timestamp <= p.timestamp})
       IN SubSeq(sorted, 1, k) \o <<p>> \o SubSeq(sorted, k + 1, Len(sorted))

\* The photo buildPhotosFromHandle pushes for the i-th collected file.  The
\* generated id is unique in a scan; the index of the file stands for it.
PhotoOf(entry, i, pathAnalysis, folderSegments, accept) ==
     [id |-> i,
      originalName |-> entry.file.name,
      currentName |-> entry.file.name,
      timestamp |-> entry.file.lastModified,
      day |-> IF accept THEN pathAnalysis.detectedDay ELSE Null,
      bucket |-> IF accept THEN pathAnalysis.detectedBucket ELSE Null,
      sequence |-> Null,
      favorite |-> FALSE,
      rating |-> 0,
      archived |-> FALSE,
      thumbnail |-> "blob:fresh",
      filePath |-> entry.path,
      sourceFolder |-> IF folderSegments # <<>>
                       THEN folderSegments[Len(folderSegments)] ELSE <<"r","o","o","t">>,
      folderHierarchy |-> folderSegments,
      detectedDay |-> pathAnalysis.detectedDay,
      detectedBucket |-> pathAnalysis.detectedBucket,
      isPreOrganized |-> pathAnalysis.isPreOrganized,
      organizationConfidence |-> pathAnalysis.confidence,
      subfolderOverride |-> Undef]
\* pathSegments.length > 1 ? pathSegments.slice(0, -1) : []
FolderSegmentsOf(pathSegments) ==
  IF Len(pathSegments) > 1 THEN SubSeq(pathSegments, 1, Len(pathSegments) - 1) ELSE <<>>
\* A scan that applies whatever day was detected.
FreshPhotoFrom_AcceptsAnyDay(entry, i, pathAnalysis) ==
  PhotoOf(entry, i, pathAnalysis, FolderSegmentsOf(SplitPath(entry.path)),
          IsSome(pathAnalysis.detectedDay))

\* A scan that applies high-confidence detections only.
FreshPhotoFrom_HighOnly(entry, i, pathAnalysis) ==
  PhotoOf(entry, i, pathAnalysis, FolderSegmentsOf(SplitPath(entry.path)),
          pathAnalysis.isPreOrganized /\ pathAnalysis.confidence = "high")

FreshPhotoFrom(entry, i, pathAnalysis) ==
  PhotoOf(entry, i, pathAnalysis, FolderSegmentsOf(SplitPath(entry.path)),
          pathAnalysis.isPreOrganized /\ pathAnalysis.confidence \in {"high", "medium"})
FreshPhoto(entry, i) ==
  FreshPhotoFrom(entry, i, analyzePathStructure(entry.path, DEFAULT_DAYS_FOLDER))

\* The loop of buildPhotosFromHandle from file i on, with the fingerprints
\* seen so far.
RECURSIVE BuildFrom(_, _, _)
BuildFrom(files, i, seenFiles) ==
  IF i > Len(files) THEN <<>>
  ELSE IF fileFingerprint(files[i].file) \in seenFiles
       THEN BuildFrom(files, i + 1, seenFiles)
       ELSE <<FreshPhoto(files[i], i)>>
            \o BuildFrom(files, i + 1, seenFiles \cup {fileFingerprint(files[i].file)})

buildPhotosFromHandle(tree) == SortByTimestamp(BuildFrom(collectFiles(tree), 1, {}))

(***************************************************************************)
(* Project service: serialized state, merge and archive rule               *)
(***************************************************************************)
DEFAULT_SETTINGS ==
  [autoDay |-> TRUE,
   folderStructure |-> [daysFolder |-> DEFAULT_DAYS_FOLDER,
                        archiveFolder |-> <<"9","8","_","A","R","C","H","I","V","E">>,
                        favoritesFolder |-> <<"F","A","V">>,
                        metaFolder |-> <<"_","m","e","t","a">>]]

\* The value under STATE_PREFIX + projectId when nothing is stored.
NoState == [k |-> "null"]

SeqMap(Op(_), seq) == [i \in 1..Len(seq) |-> Op(seq[i])]

EditOf(photo) ==
  [filePath |-> photo.filePath,
   day |-> photo.day,
   bucket |-> photo.bucket,
   sequence |-> photo.sequence,
   favorite |-> photo.favorite,
   rating |-> photo.rating,
   archived |-> photo.archived,
   currentName |-> photo.currentName,
   sourceFolder |-> photo.sourceFolder,
   folderHierarchy |-> photo.folderHierarchy,
   detectedDay |-> photo.detectedDay,
   detectedBucket |-> photo.detectedBucket,
   isPreOrganized |-> photo.isPreOrganized,
   organizationConfidence |-> photo.organizationConfidence,
   subfolderOverride |-> photo.subfolderOverride]

\* serializeState(state) followed by JSON.stringify; now is Date.now().  A
\* property whose value is undefined is left out by JSON.stringify and reads
\* back as undefined.
\* A serialization that stamps every save with the current time.
serializeState_AlwaysStamps(state, now) ==
  [k |-> "state",
   projectName |-> state.projectName,
   rootPath |-> state.rootPath,
   settings |-> state.settings,
   dayLabels |-> state.dayLabels,
   dayContainers |-> state.dayContainers,
   lastModified |-> Some(now),
   edits |-> Some(SeqMap(EditOf, state.photos))]

serializeState(state, now) ==
  [k |-> "state",
   projectName |-> state.projectName,
   rootPath |-> state.rootPath,
   settings |-> state.settings,
   dayLabels |-> state.dayLabels,
   dayContainers |-> state.dayContainers,
   lastModified |-> IF IsSome(state.lastModified) THEN state.lastModified ELSE Some(now),
   edits |-> Some(SeqMap(EditOf, state.photos))]

\* raw ? JSON.parse(raw) : {}
ParseStored(raw) ==
  IF raw = NoState
  THEN [projectName |-> "", rootPath |-> "", settings |-> Undef, dayLabels |-> <<>>,
        dayContainers |-> <<>>, lastModified |-> Undef, edits |-> Undef]
  ELSE [projectName |-> raw.projectName, rootPath |-> raw.rootPath,
        settings |-> Some(raw.settings), dayLabels |-> raw.dayLabels,
        dayContainers |-> raw.dayContainers, lastModified |-> raw.lastModified,
        edits |-> raw.edits]

\* cachedEdits.get(filePath) after the forEach that fills the map: the last
\* edit with that path, Undef when there is none.
CachedEdit(edits, filePath) ==
  LET hits == {i \in 1..Len(edits) : edits[i].filePath = filePath}
  IN IF hits = {} THEN Undef
     ELSE Some(edits[CHOOSE i \in hits : \A j \in hits : j <= i])

\* cached.bucket || photo.bucket
BucketOr(cachedBucket, freshBucket) ==
  IF IsSome(cachedBucket) /\ cachedBucket.v # "" THEN cachedBucket ELSE freshBucket

\* The object getState builds for a photo that has a cache entry.
MergeCached(photo, cached) ==
  [photo EXCEPT !.day = cached.day,
                !.bucket = BucketOr(cached.bucket, photo.bucket),
                !.sequence = cached.sequence,
                !.favorite = cached.favorite,
                !.rating = cached.rating,
                !.archived = cached.archived,
                !.currentName = cached.currentName,
                !.subfolderOverride = cached.subfolderOverride]

\* A merge that also keeps the cached entries no scanned file answers to.
ApplyCachedEdits_KeepsStale(freshPhotos, edits) ==
  LET merge(photo) == LET cached == CachedEdit(edits, photo.filePath)
                      IN IF IsSome(cached) THEN MergeCached(photo, cached.v) ELSE photo
      scanned == {freshPhotos[n].filePath : n \in 1..Len(freshPhotos)}
  IN SeqMap(merge, freshPhotos)
     \o SelectSeq(edits, LAMBDA e : e.filePath \notin scanned)

ApplyCachedEdits(freshPhotos, edits) ==
  LET merge(photo) == LET cached == CachedEdit(edits, photo.filePath)
                      IN IF IsSome(cached) THEN MergeCached(photo, cached.v) ELSE photo
  IN SeqMap(merge, freshPhotos)

\* An archive test that knows the configured name only.
isArchiveFolderSegment_ExactOnly(segment, archiveFolder) ==
  toLowerCase(archiveFolder) # <<>> /\ toLowerCase(segment) = toLowerCase(archiveFolder)

isArchiveFolderSegment(segment, archiveFolder) ==
  LET normalized == toLowerCase(segment)
      simplified == trim(ReplaceNonAlnum(normalized, FALSE))
      explicit == toLowerCase(archiveFolder)
      archive == <<"a","r","c","h","i","v","e">>
  IN \/ explicit # <<>> /\ normalized = explicit
     \/ normalized = archive \/ normalized = archive \o <<"s">>
     \/ endsWith(normalized, <<"_">> \o archive) \/ endsWith(normalized, <<"-">> \o archive)
     \/ includes(normalized, archive) \/ includes(simplified, archive)

HasArchiveSegment(filePath, archiveFolder) ==
  LET segments == SplitPath(filePath)
  IN \E i \in 1..Len(segments) : isArchiveFolderSegment(segments[i], archiveFolder)

applyArchiveFolder(photos, archiveFolder) ==
  LET force(photo) == IF HasArchiveSegment(photo.filePath, archiveFolder)
                      THEN [photo EXCEPT !.archived = TRUE, !.bucket = Some("X")]
                      ELSE photo
  IN IF archiveFolder = <<>> THEN photos ELSE SeqMap(force, photos)

(***************************************************************************)
(* Project service: getState                                               *)
(***************************************************************************)
MsgDbTimeout == 
  <<"I","n","d","e","x","e","d","D","B"," ","o","p","e","n"," ","t","i",
    "m","e","d"," ","o","u","t",".">>
MsgNoHandle == 
  <<"P","r","o","j","e","c","t"," ","f","o","l","d","e","r"," ","a","c",
    "c","e","s","s"," ","n","o","t"," ","a","v","a","i","l","a","b","l",
    "e","."," ","P","l","e","a","s","e"," ","r","e","s","e","l","e","c",
    "t"," ","t","h","e"," ","f","o","l","d","e","r",".">>
MsgUnsupported == 
  <<"F","i","l","e"," ","S","y","s","t","e","m"," ","A","c","c","e","s",
    "s"," ","A","P","I"," ","i","s"," ","n","o","t"," ","a","v","a","i",
    "l","a","b","l","e"," ","o","r"," ","s","u","p","p","o","r","t","e",
    "d"," ","i","n"," ","t","h","i","s"," ","e","n","v","i","r","o","n",
    "m","e","n","t",".">>
MsgExpired == 
  <<"P","r","o","j","e","c","t"," ","f","o","l","d","e","r"," ","a","c",
    "c","e","s","s"," ","h","a","s"," ","e","x","p","i","r","e","d",".",
    " ","P","l","e","a","s","e"," ","c","l","i","c","k"," ","t","h","e",
    " ","p","r","o","j","e","c","t"," ","a","g","a","i","n"," ","t","o",
    " ","r","e","s","e","l","e","c","t"," ","t","h","e"," ","f","o","l",
    "d","e","r",".">>
MsgNotGranted == 
  <<"F","o","l","d","e","r"," ","a","c","c","e","s","s"," ","w","a","s",
    " ","n","o","t"," ","g","r","a","n","t","e","d","."," ","P","l","e",
    "a","s","e"," ","a","l","l","o","w"," ","a","c","c","e","s","s"," ",
    "t","o"," ","c","o","n","t","i","n","u","e",".">>
MsgNoFiles == 
  <<"P","r","o","j","e","c","t"," ","f","o","l","d","e","r"," ","a","c",
    "c","e","s","s"," ","i","s"," ","n","o"," ","l","o","n","g","e","r",
    " ","a","v","a","i","l","a","b","l","e","."," ","P","l","e","a","s",
    "e"," ","r","e","s","e","l","e","c","t"," ","t","h","e"," ","f","o",
    "l","d","e","r",".">>

\* What the environment answers to one getState call: the handle database
\* times out, the handle has no requestPermission, requestPermission throws,
\* or it resolves to one of the three permission states.
Environments == {"dbTimeout", "unsupported", "throws", "denied", "prompt", "granted"}

HANDLE_NAME == "folder"

Rejected(message, removeHandle) ==
  [message |-> message, removeHandle |-> removeHandle, status |-> "rejected"]

\* settings.folderStructure?.archiveFolder || DEFAULT_SETTINGS...archiveFolder
ArchiveFolderOf(settings) ==
  IF settings.folderStructure.archiveFolder # <<>>
  THEN settings.folderStructure.archiveFolder
  ELSE DEFAULT_SETTINGS.folderStructure.archiveFolder

\* What a plausible slip would make of the zero-files test.
NoFilesFound_Never(freshPhotos) == FALSE

\* freshPhotos.length === 0
NoFilesFound(freshPhotos) == Len(freshPhotos) = 0

\* getState(projectId): raw is the stored serialized state, handle says
\* whether a folder handle is stored, tree is the folder behind the handle.
getState(raw, handle, tree, env) ==
  IF env = "dbTimeout" THEN Rejected(MsgDbTimeout, FALSE)
  ELSE IF ~handle THEN Rejected(MsgNoHandle, FALSE)
  ELSE IF env = "unsupported" THEN Rejected(MsgUnsupported, FALSE)
  ELSE IF env = "throws" THEN Rejected(MsgExpired, TRUE)
  ELSE IF env # "granted" THEN Rejected(MsgNotGranted, FALSE)
  ELSE LET stored == ParseStored(raw)
           freshPhotos == buildPhotosFromHandle(tree)
           photos == IF IsSome(stored.edits)
                     THEN ApplyCachedEdits(freshPhotos, stored.edits.v)
                     ELSE freshPhotos
           settings == IF IsSome(stored.settings) THEN stored.settings.v
                       ELSE DEFAULT_SETTINGS
       IN IF NoFilesFound(freshPhotos) THEN Rejected(MsgNoFiles, FALSE)
          ELSE [status |-> "resolved",
                state |-> [projectName |-> IF stored.projectName # ""
                                           THEN stored.projectName ELSE HANDLE_NAME,
                           rootPath |-> IF stored.rootPath # ""
                                        THEN stored.rootPath ELSE HANDLE_NAME,
                           photos |-> applyArchiveFolder(photos, ArchiveFolderOf(settings)),
                           settings |-> settings,
                           dayLabels |-> stored.dayLabels,
                           dayContainers |-> stored.dayContainers,
                           lastModified |-> stored.lastModified]]

(***************************************************************************)
(* Bounded inputs of the reconciler                                        *)
(***************************************************************************)
\* The most files a scanned folder holds.
MaxFiles == 2

\* The files a folder is made of: the canonical layout with and without a
\* bucket folder, a layout without a days folder, a numbered folder, archive
\* folders (by the default name, by a configured name, by the token), a
\* hidden directory, an unsupported file, copies with the same fingerprint
\* and with fingerprints that differ in one part.
FilePool ==
  <<[dirs |-> <<<<"0","1","_","D","A","Y","S">>, <<"D","a","y"," ","1">>, <<"A">>>>,
    name |-> <<"a",".","j","p","g">>, lastModified |-> 1, size |-> 1],
   [dirs |-> <<<<"D","2">>, <<"B","_","x">>>>,
    name |-> <<"a",".","j","p","g">>, lastModified |-> 1, size |-> 1],
   [dirs |-> <<<<"9","8","_","A","R","C","H","I","V","E">>>>,
    name |-> <<"a",".","j","p","g">>, lastModified |-> 1, size |-> 2],
   [dirs |-> <<<<"b","i","n">>, <<"2","_","x">>>>,
    name |-> <<"a",".","j","p","g">>, lastModified |-> 2, size |-> 1],
   [dirs |-> <<<<"o","l","d","-","a","r","c","h","i","v","e">>, <<"D","a","y"," ","3">>, <<"C">>>>,
    name |-> <<"b",".","p","n","g">>, lastModified |-> 2, size |-> 1],
   [dirs |-> <<<<".","c","a","c","h","e">>>>,
    name |-> <<"c",".","j","p","g">>, lastModified |-> 1, size |-> 1],
   [dirs |-> <<>>,
    name |-> <<"n","o","t","e","s",".","t","x","t">>, lastModified |-> 1, size |-> 1],
   [dirs |-> <<<<"0","1","_","D","A","Y","S">>, <<"D","a","y"," ","1">>>>,
    name |-> <<"A",".","J","P","G">>, lastModified |-> 1, size |-> 1]>>

\* The sequences of at most n distinct indices of FilePool.
RECURSIVE DistinctSeqs(_)
DistinctSeqs(n) ==
  IF n = 0 THEN {<<>>}
  ELSE LET shorter == DistinctSeqs(n - 1)
       IN shorter \cup
          {Append(q, i) : q \in {r \in shorter : Len(r) = n - 1},
                          i \in 1..Len(FilePool)}

HasNoRepeat(q) == \A i, j \in 1..Len(q) : i # j => q[i] # q[j]

Trees ==
  {[i \in 1..Len(q) |-> FilePool[q[i]]] :
     q \in {r \in DistinctSeqs(MaxFiles) : HasNoRepeat(r)}}

\* What a user left in the cache for a file.
EditProfiles == {"edited", "cleared", "archived"}

CachedEditOf(file, profile) ==
  LET base == [filePath |-> JoinDirs(file.dirs, file.name),
               sourceFolder |-> <<"r","o","o","t">>, folderHierarchy |-> <<>>,
               detectedDay |-> Null, detectedBucket |-> Null,
               isPreOrganized |-> FALSE, organizationConfidence |-> "none"]
  IN IF profile = "edited"
     THEN base @@ [day |-> Some(4), bucket |-> Some("B"), sequence |-> Some(2),
                   favorite |-> TRUE, rating |-> 3, archived |-> FALSE,
                   currentName |-> <<"r",".","j","p","g">>,
                   subfolderOverride |-> Some(<<"s","u","b">>)]
     ELSE IF profile = "cleared"
     THEN base @@ [day |-> Null, bucket |-> Null, sequence |-> Null,
                   favorite |-> FALSE, rating |-> 0, archived |-> FALSE,
                   currentName |-> file.name, subfolderOverride |-> Null]
     ELSE base @@ [day |-> Some(1), bucket |-> Some("X"), sequence |-> Null,
                   favorite |-> FALSE, rating |-> 0, archived |-> TRUE,
                   currentName |-> file.name, subfolderOverride |-> Undef]

\* The cached entries of the first n files, all left in one profile.
InitialEdits(files, profile, n) ==
  [i \in 1..n |-> CachedEditOf(files[i], profile)]

CUSTOM_SETTINGS ==
  [DEFAULT_SETTINGS EXCEPT !.folderStructure.archiveFolder = <<"B","i","n">>]

\* Date.now() at a save
Times == {10, 11}

\* The serialized states an earlier session can have left for the files:
\* none, or one with an entry for every file or for the first file only.
InitialStores(files) ==
  {NoState} \cup
  {[k |-> "state", projectName |-> "Trip", rootPath |-> "Trips",
    settings |-> st, dayLabels |-> <<"Arrival">>,
    dayContainers |-> << <<"D","2">> >>,
    lastModified |-> Some(5),
    edits |-> Some(InitialEdits(files, profile, n))] :
     st \in {DEFAULT_SETTINGS, CUSTOM_SETTINGS},
     profile \in EditProfiles,
     n \in {m \in {1, Len(files)} : m <= Len(files)}}

(***************************************************************************)
(* Project hook (useProjectState): the operators loadProject relies on     *)
(***************************************************************************)
PROJECT_ID == "p1"

\* detectDayNumberFromFolderName(container), called without a trip start
detectDayNumberFromFolderName(folderName) ==
  extractDayFromFolderName(folderName, Undef).day

\* The day the first container equal to key maps to, Null without one:
\* containerDayMap.get(key).
ContainerDay(containers, key) ==
  LET hits == {i \in 1..Len(containers) :
                 /\ containers[i] = key
                 /\ detectDayNumberFromFolderName(containers[i]) # Null}
  IN IF hits = {} THEN Null
     ELSE detectDayNumberFromFolderName(containers[CHOOSE i \in hits : TRUE])

\* The first container, in insertion order, the path lies in or equals.
PrefixContainers(containers, filePath) ==
  {i \in 1..Len(containers) :
     /\ detectDayNumberFromFolderName(containers[i]) # Null
     /\ \/ filePath = PrefixOf(<<>>, SplitPath(containers[i]))
        \/ startsWith(filePath, PrefixOf(<<>>, SplitPath(containers[i])) \o <<"/">>)}

\* sub.match(/^D(\d{1,2})/i)
SubfolderDay(sub) ==
  IF sub # <<>> /\ LowerChar(sub[1]) = "d" /\ DigitRun(Tail(sub)) >= 1
  THEN Some(ParseInt(SubSeq(Tail(sub), 1, IF DigitRun(Tail(sub)) >= 2 THEN 2 ELSE 1)))
  ELSE Null

applyDayContainers(sourcePhotos, containers) ==
  LET assign(p) ==
        LET parts == SplitPath(p.filePath)
            assignedDay == ContainerDay(containers, parts[1])
            inside == PrefixContainers(containers, PrefixOf(<<>>, parts))
        IN IF p.filePath = <<>> THEN p
           ELSE IF p.isPreOrganized /\ p.day # Null /\ p.day # Undef THEN p
           ELSE IF assignedDay # Null THEN [p EXCEPT !.day = assignedDay]
           ELSE IF inside # {}
                THEN [p EXCEPT !.day = detectDayNumberFromFolderName(
                                         containers[CHOOSE i \in inside :
                                                      \A j \in inside : i <= j])]
           ELSE IF Len(parts) > 1 /\ SubfolderDay(parts[2]) # Null
                THEN [p EXCEPT !.day = SubfolderDay(parts[2])]
           ELSE p
  IN SeqMap(assign, sourcePhotos)

NoLongerAvailable ==
  <<"n","o"," ","l","o","n","g","e","r"," ","a","v","a","i","l","a","b",
    "l","e">>

\* The test of loadProject's catch block on the error message.
OffersPermissionRetry(message) ==
  \/ /\ includes(message, <<"a","c","c","e","s","s">>)
     /\ ~includes(message, NoLongerAvailable)
  \/ includes(message, <<"p","e","r","m","i","s","s","i","o","n">>)
  \/ includes(message, <<"g","r","a","n","t","e","d">>)

\* setProjectFromState(state): the in-memory project it sets.
setProjectFromState(state) ==
  [photos |-> state.photos,
   projectName |-> IF state.projectName # "" THEN state.projectName ELSE "No Project",
   projectFolderLabel |-> IF state.rootPath # "" THEN Some(state.rootPath) ELSE Null,
   projectSettings |-> state.settings,
   dayLabels |-> state.dayLabels,
   dayContainers |-> state.dayContainers]

\* A loadProject that clears the project when getState rejects.
loadProjectMemory_ClearsOnFailure(memory, r) ==
  IF r.status = "resolved"
  THEN setProjectFromState(
         [r.state EXCEPT !.photos = applyDayContainers(r.state.photos,
                                                       r.state.dayContainers)])
       @@ [projectRootPath |-> Some(PROJECT_ID)]
  ELSE [photos |-> <<>>, projectName |-> "No Project", projectFolderLabel |-> Null,
        projectSettings |-> DEFAULT_SETTINGS, dayLabels |-> <<>>,
        dayContainers |-> <<>>, projectRootPath |-> Null]

\* The in-memory project after loadProject, from the one before it and the
\* outcome r of getState: the try block sets it once getState has resolved,
\* the catch block sets none of it.
loadProjectMemory(memory, r) ==
  IF r.status = "resolved"
  THEN setProjectFromState(
         [r.state EXCEPT !.photos = applyDayContainers(r.state.photos,
                                                       r.state.dayContainers)])
       @@ [projectRootPath |-> Some(PROJECT_ID)]
  ELSE memory

\* updateRecentProjects for the one project there is: its entry moves to the
\* front with the new name, location and photo count (lastOpened left out).
updateRecentProjects(recent, project) == <<project>>

(***************************************************************************)
(* Ordering engine (photoOrdering) and the functions its caller passes     *)
(***************************************************************************)
VIDEO_EXT ==
  {<<"m","p","4">>, <<"m","o","v">>, <<"w","e","b","m">>, <<"a","v","i">>,
   <<"m","k","v">>}

\* isVideoPhoto, for photos without a mime type
isVideoPhoto(photo) == Extension(photo.originalName) \in VIDEO_EXT

DayRoot == <<"D","a","y"," ","R","o","o","t">>

\* photo.filePath || photo.originalName || ''
PathOrName(photo) == IF photo.filePath # <<>> THEN photo.filePath ELSE photo.originalName

\* The folder after the day folder, 'Day Root' when there is none.
SubfolderAt(folderSegments, dayIndex) ==
  IF dayIndex # 0 /\ dayIndex + 1 <= Len(folderSegments)
  THEN folderSegments[dayIndex + 1]
  ELSE DayRoot

\* if (dayIndex === -1): the first segment, other than the days folder, that
\* names the day.
DayIndexElsewhere(folderSegments, dayNumber, daysFolder, dayIndex) ==
  IF dayIndex # 0 THEN dayIndex
  ELSE FirstIndex({i \in 1..Len(folderSegments) :
                     /\ ~(/\ daysFolder # <<>>
                          /\ toLowerCase(folderSegments[i]) = toLowerCase(daysFolder))
                     /\ detectDayNumberFromFolderName(folderSegments[i]) = dayNumber})

\* if (daysFolder): the segment after the days folder when it names the day.
DayIndexUnderDays(folderSegments, dayNumber, daysFolder, daysIndex) ==
  IF /\ daysFolder # <<>>
     /\ daysIndex # 0
     /\ daysIndex + 1 <= Len(folderSegments)
     /\ detectDayNumberFromFolderName(folderSegments[daysIndex + 1]) = dayNumber
  THEN daysIndex + 1
  ELSE 0

DerivedGroupIn(folderSegments, dayNumber, daysFolder) ==
  SubfolderAt(folderSegments,
    DayIndexElsewhere(folderSegments, dayNumber, daysFolder,
      DayIndexUnderDays(folderSegments, dayNumber, daysFolder,
        FirstIndex({i \in 1..Len(folderSegments) :
                      toLowerCase(folderSegments[i]) = toLowerCase(daysFolder)}))))

getDerivedSubfolderGroup(photo, dayNumber, daysFolder) ==
  IF dayNumber = Null THEN DayRoot
  ELSE DerivedGroupIn(PathSegmentsOf(SplitFrom(PathOrName(photo), <<>>)),
                      dayNumber, daysFolder)

getSubfolderGroup(photo, dayNumber) ==
  IF photo.subfolderOverride # Undef
  THEN (IF IsSome(photo.subfolderOverride) THEN photo.subfolderOverride.v ELSE DayRoot)
  ELSE getDerivedSubfolderGroup(photo, dayNumber, DEFAULT_DAYS_FOLDER)

\* A comparator that stops at the name.
comparePhotos_NoIdTieBreak(a, b) ==
  IF a.timestamp # b.timestamp THEN a.timestamp - b.timestamp
  ELSE IF localeCompare(PathOrName(a), PathOrName(b)) # 0
       THEN localeCompare(PathOrName(a), PathOrName(b))
  ELSE localeCompare(a.originalName, b.originalName)

comparePhotos(a, b) ==
  IF a.timestamp # b.timestamp THEN a.timestamp - b.timestamp
  ELSE IF localeCompare(PathOrName(a), PathOrName(b)) # 0
       THEN localeCompare(PathOrName(a), PathOrName(b))
  ELSE IF localeCompare(a.originalName, b.originalName) # 0
       THEN localeCompare(a.originalName, b.originalName)
  ELSE localeCompare(a.id, b.id)

\* Array.prototype.sort with a comparator: stable, each element after the
\* elements that do not compare greater.
RECURSIVE SortBy(_, _)
SortBy(Cmp(_, _), items) ==
  IF items = <<>> THEN <<>>
  ELSE LET sorted == SortBy(Cmp, SubSeq(items, 1, Len(items) - 1))
           x == items[Len(items)]
           k == Cardinality({i \in 1..Len(sorted) : Cmp(sorted[i], x) <= 0})
       IN SubSeq(sorted, 1, k) \o <<x>> \o SubSeq(sorted, k + 1, Len(sorted))

\* Array.prototype.filter
RECURSIVE SeqFilter(_, _)
SeqFilter(Keep(_), seq) ==
  IF seq = <<>> THEN <<>>
  ELSE (IF Keep(seq[1]) THEN <<seq[1]>> ELSE <<>>) \o SeqFilter(Keep, Tail(seq))

\* A separation that puts the videos first.
StillsThenVideos_VideosFirst(groupPhotos, separateVideos) ==
  LET still(photo) == ~isVideoPhoto(photo)
  IN IF separateVideos
     THEN SeqFilter(isVideoPhoto, groupPhotos) \o SeqFilter(still, groupPhotos)
     ELSE groupPhotos

\* [...stills, ...videos] when videos are separated, the photos otherwise
StillsThenVideos(groupPhotos, separateVideos) ==
  LET still(photo) == ~isVideoPhoto(photo)
  IN IF separateVideos
     THEN SeqFilter(still, groupPhotos) \o SeqFilter(isVideoPhoto, groupPhotos)
     ELSE groupPhotos

\* photos.forEach((photo, index) => indexMap.set(photo.id, index)): the last
\* index of an id stays.
IndexMapOf(photos) ==
  [id \in {photos[n].id : n \in 1..Len(photos)} |->
     (CHOOSE n \in 1..Len(photos) :
        /\ photos[n].id = id
        /\ \A m \in 1..Len(photos) : photos[m].id = id => m <= n) - 1]

\* An index map that counts from one.
buildIndexMap_OneBased(photos) ==
  [photos |-> photos,
   indexMap |-> [id \in DOMAIN IndexMapOf(photos) |-> IndexMapOf(photos)[id] + 1],
   groups |-> Undef]

buildIndexMap(photos) ==
  [photos |-> photos, indexMap |-> IndexMapOf(photos), groups |-> Undef]

\* The keys of a Map filled from the sequence, in insertion order.
RECURSIVE KeysInOrder(_, _, _)
KeysInOrder(Key(_), seq, seen) ==
  IF seq = <<>> THEN <<>>
  ELSE IF Key(seq[1]) \in seen THEN KeysInOrder(Key, Tail(seq), seen)
  ELSE <<Key(seq[1])>> \o KeysInOrder(Key, Tail(seq), seen \cup {Key(seq[1])})

\* The concatenation of the sequences of a sequence.
RECURSIVE Flatten(_)
Flatten(seqs) == IF seqs = <<>> THEN <<>> ELSE seqs[1] \o Flatten(Tail(seqs))

CompareLabels(labelA, labelB) ==
  IF labelA = DayRoot THEN -1
  ELSE IF labelB = DayRoot THEN 1
  ELSE localeCompare(labelA, labelB)

\* The result of groupBySubfolder from the groups in label order: members
\* holds each group's photos, placed the same with stills before videos.
SubfolderResult(labels, members, placed) ==
  [photos |-> Flatten(placed),
   indexMap |-> IndexMapOf(Flatten(placed)),
   groups |-> Some([i \in 1..Len(labels) |->
                      [label |-> labels[i], photos |-> members[i],
                       startIndex |-> Len(Flatten(SubSeq(placed, 1, i - 1)))]])]

SubfolderMembers(labels, members, separateVideos) ==
  SubfolderResult(labels, members,
                  [i \in 1..Len(labels) |-> StillsThenVideos(members[i], separateVideos)])

PhotosOf(tagged) == [k \in 1..Len(tagged) |-> tagged[k].photo]

\* The Map from label to photos, filled in the order of sorted.
SubfolderGroups(sorted, labelOf, labels, separateVideos) ==
  SubfolderMembers(labels,
                   [i \in 1..Len(labels) |->
                      PhotosOf(SelectSeq([n \in 1..Len(sorted) |->
                                            [photo |-> sorted[n], label |-> labelOf[n]]],
                                         LAMBDA t : t.label = labels[i]))],
                   separateVideos)

\* labelOf[n] is the group of sorted[n]; the labels are sorted with 'Day Root'
\* first.
SubfolderLabels(sorted, labelOf, separateVideos) ==
  SubfolderGroups(sorted, labelOf,
                  SortBy(CompareLabels, KeysInOrder(LAMBDA l : l, labelOf, {})),
                  separateVideos)

groupBySubfolder(sorted, selectedDay, separateVideos) ==
  SubfolderLabels(sorted,
                  [n \in 1..Len(sorted) |-> getSubfolderGroup(sorted[n], selectedDay)],
                  separateVideos)

BucketOrder == <<Some("A"), Some("B"), Some("C"), Some("D"), Some("E"), Some("M"),
                 Some("X"), Null>>

groupByBucket(sorted, separateVideos) ==
  LET key(photo) == IF IsSome(photo.bucket) /\ photo.bucket.v # "" THEN photo.bucket
                    ELSE Null
      members(i) == LET inGroup(photo) == key(photo) = BucketOrder[i]
                    IN SeqFilter(inGroup, sorted)
  IN buildIndexMap(Flatten([i \in 1..Len(BucketOrder) |->
                              StillsThenVideos(members(i), separateVideos)]))

\* A comparison of days that lets the photos without a day come first.
CompareDays_NullFirst(a, b) ==
  IF a = Null THEN -1 ELSE IF b = Null THEN 1 ELSE a.v - b.v

CompareDays(a, b) ==
  IF a = Null THEN 1 ELSE IF b = Null THEN -1 ELSE a.v - b.v

groupByDay(sorted, separateVideos) ==
  LET key(photo) == IF IsSome(photo.day) THEN photo.day ELSE Null
      sortedDays == SortBy(CompareDays, KeysInOrder(key, sorted, {}))
      members(i) == LET inGroup(photo) == key(photo) = sortedDays[i]
                    IN SeqFilter(inGroup, sorted)
  IN buildIndexMap(Flatten([i \in 1..Len(sortedDays) |->
                              StillsThenVideos(members(i), separateVideos)]))

\* sortPhotos(photos, options), with the caller's getSubfolderGroup and isVideo
sortPhotos(photoList, options) ==
  LET sorted == SortBy(comparePhotos, photoList)
  IN IF options.groupBy = "subfolder" /\ IsSome(options.selectedDay)
     THEN groupBySubfolder(sorted, options.selectedDay, options.separateVideos)
     ELSE IF options.groupBy = "bucket"
     THEN groupByBucket(sorted, options.separateVideos)
     ELSE IF options.groupBy = "day"
     THEN groupByDay(sorted, options.separateVideos)
     ELSE buildIndexMap(StillsThenVideos(sorted, options.separateVideos))

getPhotoIndex(photoId, indexMap) ==
  IF photoId \in DOMAIN indexMap THEN indexMap[photoId] ELSE -1

\* The filter predicates a caller passes to navigatePhotos.
Filters == {"none", "unassigned"}
\* photo => !photo.bucket
Matches(filter, photo) ==
  filter = "unassigned" => ~(IsSome(photo.bucket) /\ photo.bucket.v # "")

\* The while loop of navigatePhotos from index nextIndex (counted from zero).
RECURSIVE ScanFrom(_, _, _, _)
ScanFrom(nextIndex, step, result, filter) ==
  IF nextIndex >= 0 /\ nextIndex < Len(result.photos)
  THEN IF Matches(filter, result.photos[nextIndex + 1])
       THEN Some(result.photos[nextIndex + 1])
       ELSE ScanFrom(nextIndex + step, step, result, filter)
  ELSE Null

\* A navigation that goes on from the other end at a boundary.
navigatePhotos_Wraps(currentPhotoId, direction, result, filter) ==
  LET currentIndex == getPhotoIndex(currentPhotoId, result.indexMap)
      step == IF direction = "next" THEN 1 ELSE -1
      found == ScanFrom(currentIndex + step, step, result, filter)
  IN IF currentIndex = -1 THEN Null
     ELSE IF found # Null THEN found
     ELSE ScanFrom(IF direction = "next" THEN 0 ELSE Len(result.photos) - 1,
                   step, result, filter)

navigatePhotos(currentPhotoId, direction, result, filter) ==
  LET currentIndex == getPhotoIndex(currentPhotoId, result.indexMap)
      step == IF direction = "next" THEN 1 ELSE -1
      nextIndex == currentIndex + step
  IN IF currentIndex = -1 THEN Null
     ELSE IF filter # "none" THEN ScanFrom(nextIndex, step, result, filter)
     ELSE IF nextIndex >= 0 /\ nextIndex < Len(result.photos)
          THEN Some(result.photos[nextIndex + 1])
     ELSE Null

(***************************************************************************)
(* State                                                                   *)
(***************************************************************************)
VARIABLES
  tree,       \* the project folder: its files in enumeration order
  handle,     \* whether a folder handle is stored for the project
  stored,     \* the serialized state under the project's key, or NoState
  ret,        \* the outcome of the last getState call
  call,       \* the stored state that call started from, the photos it scanned
  unsaved,    \* whether the state in ret has not been saved yet
  savedLog,   \* the serialized states written by the last two saves
  photos, projectName, projectRootPath, projectFolderLabel, projectSettings,
  dayLabels, dayContainers,  \* the project held in memory by the hook
  recentProjects,            \* the recent-projects list
  activeProject,             \* the project id under ACTIVE_PROJECT_KEY
  showWelcome, projectError, permissionRetryProjectId,
  attempt,    \* the last loadProject: its cause, outcome, the memory before
  displayPhotos,    \* the photos handed to the ordering engine
  sortOptions,      \* the options they are sorted with
  orderingResult,   \* the result of the last sortPhotos, or NoResult
  sortedOwnOutput,  \* whether that sortPhotos was given a result's photos
  currentPhotoId,   \* the photo open in the viewer, if any
  navTrail,         \* the last two navigatePhotos calls
  history,          \* useHistory's snapshots of photos
  historyIndex,     \* its index into them, from zero; -1 for none
  lastEdit,         \* the last user mutation, or NoCall
  detectName,       \* the folder name handed to the detectors
  detectStart,      \* the trip start handed with it, or Undef
  dayDetected,      \* what extractDayFromFolderName returned for them
  bucketDetected,   \* what detectBucketFromFolderName returned
  detectPath,       \* the file path and options handed to analyzePathStructure
  pathAnalysed,     \* what analyzePathStructure returned for it
  storageCall       \* the last safeLocalStorage or deleteProject call

serviceVars == <<tree, handle, stored, ret, call, unsaved, savedLog>>
memoryVars == <<photos, projectName, projectRootPath, projectFolderLabel,
                projectSettings, dayLabels, dayContainers>>
hookVars == <<memoryVars, recentProjects, activeProject, showWelcome,
              projectError, permissionRetryProjectId, attempt>>
orderVars == <<displayPhotos, sortOptions, orderingResult, sortedOwnOutput,
               currentPhotoId, navTrail>>
editVars == <<history, historyIndex, lastEdit>>
detectVars == <<detectName, detectStart, dayDetected, bucketDetected,
                detectPath, pathAnalysed>>
storeVars == <<storageCall>>
vars == <<serviceVars, hookVars, orderVars, editVars, detectVars, storeVars>>

NoCall == [k |-> "none"]

\* useProjectState's initial values
HookInit ==
  /\ photos = <<>>
  /\ projectName = "No Project"
  /\ projectRootPath = Null
  /\ projectFolderLabel = Null
  /\ projectSettings = DEFAULT_SETTINGS
  /\ dayLabels = <<>>
  /\ dayContainers = <<>>
  /\ recentProjects = <<>>
  /\ activeProject \in {Null, Some(PROJECT_ID)}
  /\ showWelcome = (activeProject = Null)
  /\ projectError = Null
  /\ permissionRetryProjectId = Null
  /\ attempt = NoCall

NoResult == [k |-> "none"]

OrderIdle ==
  /\ displayPhotos = <<>>
  /\ sortOptions = [groupBy |-> "none", separateVideos |-> FALSE, selectedDay |-> Null]
  /\ orderingResult = NoResult
  /\ sortedOwnOutput = FALSE
  /\ currentPhotoId = Null
  /\ navTrail = <<>>

\* useHistory's initial values
EditIdle ==
  /\ history = <<>>
  /\ historyIndex = -1
  /\ lastEdit = NoCall

NotDetected == [k |-> "none"]

PathIdle ==
  /\ detectPath = NoCall
  /\ pathAnalysed = NotDetected

DetectIdle ==
  /\ detectName = <<>>
  /\ detectStart = Undef
  /\ dayDetected = NotDetected
  /\ bucketDetected = NotDetected
  /\ PathIdle

StoreIdle == storageCall = NoCall

ServiceIdle ==
  /\ ret = [status |-> "none"]
  /\ call = NoCall
  /\ unsaved = FALSE
  /\ savedLog = <<>>

Init ==
  /\ tree \in Trees
  /\ handle = TRUE
  /\ stored \in InitialStores(tree)
  /\ ServiceIdle
  /\ HookInit
  /\ activeProject = Null
  /\ OrderIdle
  /\ EditIdle
  /\ DetectIdle
  /\ StoreIdle

\* The photos the call's buildPhotosFromHandle returned; the scan is reached
\* with a stored handle and permission granted.
ScannedBy(hasHandle, env, folder) ==
  IF hasHandle /\ env = "granted" THEN buildPhotosFromHandle(folder) ELSE <<>>

\* getState(projectId) is called and settles.
GetState ==
  \E env \in Environments :
    /\ ret' = getState(stored, handle, tree, env)
    /\ call' = [k |-> "getState", stored |-> stored,
                scan |-> ScannedBy(handle, env, tree)]
    /\ handle' = IF ret'.status = "rejected" /\ ret'.removeHandle THEN FALSE ELSE handle
    /\ unsaved' = (ret'.status = "resolved")
    /\ UNCHANGED <<tree, stored, savedLog, hookVars, orderVars, editVars, detectVars, storeVars>>

\* saveState(projectId, state) with the state getState returned.
SaveState ==
  /\ ret.status = "resolved"
  /\ unsaved
  /\ \E now \in Times :
       /\ stored' = serializeState(ret.state, now)
       /\ savedLog' = IF Len(savedLog) < 2 THEN Append(savedLog, stored')
                      ELSE <<savedLog[2], stored'>>
  /\ unsaved' = FALSE
  /\ UNCHANGED <<tree, handle, ret, call, hookVars, orderVars, editVars, detectVars, storeVars>>

Next == GetState \/ SaveState

Spec == Init /\ [][Next]_vars

(***************************************************************************)
(* Loading a project (useProjectState.loadProject)                         *)
(***************************************************************************)
\* The most files of a folder a project is loaded from.
MaxLoadFiles == 1

Memory ==
  [photos |-> photos, projectName |-> projectName,
   projectFolderLabel |-> projectFolderLabel, projectSettings |-> projectSettings,
   dayLabels |-> dayLabels, dayContainers |-> dayContainers,
   projectRootPath |-> projectRootPath]

\* Why getState rejected, from what it was called with.
FailureCause(hadHandle, env, r) ==
  IF r.status = "resolved" THEN "none"
  ELSE IF env = "dbTimeout" THEN "database"
  ELSE IF ~hadHandle THEN "noHandle"
  ELSE IF env = "unsupported" THEN "unsupported"
  ELSE IF env = "throws" THEN "requestFailed"
  ELSE IF env # "granted" THEN "denied"
  ELSE "noFiles"

InitLoad ==
  /\ tree \in {t \in Trees : Len(t) <= MaxLoadFiles}
  /\ handle \in BOOLEAN
  /\ stored \in InitialStores(tree)
  /\ ServiceIdle
  /\ HookInit
  /\ OrderIdle
  /\ EditIdle
  /\ DetectIdle
  /\ StoreIdle

\* loadProject(projectId) from its first line to the end of its finally block.
LoadProject ==
  \E env \in Environments :
    /\ ret' = getState(stored, handle, tree, env)
    /\ \E m \in {loadProjectMemory(Memory, ret')} :
       /\ handle' = IF ret'.status = "rejected" /\ ret'.removeHandle THEN FALSE ELSE handle
       /\ attempt' = [k |-> "loadProject", status |-> ret'.status,
                      cause |-> FailureCause(handle, env, ret'), before |-> Memory]
       /\ photos' = m.photos
       /\ projectName' = m.projectName
       /\ projectFolderLabel' = m.projectFolderLabel
       /\ projectSettings' = m.projectSettings
       /\ dayLabels' = m.dayLabels
       /\ dayContainers' = m.dayContainers
       /\ projectRootPath' = m.projectRootPath
       /\ IF ret'.status = "resolved"
          THEN /\ projectError' = Null
               /\ showWelcome' = FALSE
               /\ activeProject' = Some(PROJECT_ID)
               /\ recentProjects' =
                    updateRecentProjects(recentProjects,
                      [projectId |-> PROJECT_ID, projectName |-> ret'.state.projectName,
                       rootPath |-> ret'.state.rootPath,
                       totalPhotos |-> Len(ret'.state.photos)])
               /\ permissionRetryProjectId' = Null
          ELSE /\ projectError' = Some(ret'.message)
               /\ permissionRetryProjectId' =
                    IF OffersPermissionRetry(ret'.message) THEN Some(PROJECT_ID)
                    ELSE permissionRetryProjectId
               /\ activeProject' = Null
               /\ showWelcome' = TRUE
               /\ UNCHANGED recentProjects
       /\ UNCHANGED <<tree, stored, call, unsaved, savedLog, orderVars, editVars, detectVars, storeVars>>

\* The user moves or deletes the folder's files.
FolderEmptied ==
  /\ tree # <<>>
  /\ tree' = <<>>
  /\ UNCHANGED <<handle, stored, ret, call, unsaved, savedLog, hookVars, orderVars, editVars, detectVars, storeVars>>

NextLoad == LoadProject \/ FolderEmptied

SpecLoad == InitLoad /\ [][NextLoad]_vars

(***************************************************************************)
(* Ordering and navigation                                                 *)
(***************************************************************************)
\* The most photos handed to the ordering engine.
MaxPhotos == 3

\* The photos there are to order: two that differ in their ids only (one of
\* them moved to a subfolder by the user), one in a day's bucket folder, a
\* video older than the stills.
PhotoPool ==
  <<[id |-> <<"k","1">>, timestamp |-> 1,
    filePath |-> <<>>,
    originalName |-> <<"a",".","j","p","g">>, bucket |-> Null, day |-> Null,
    favorite |-> FALSE, subfolderOverride |-> Undef],
   [id |-> <<"k","2">>, timestamp |-> 1,
    filePath |-> <<>>,
    originalName |-> <<"a",".","j","p","g">>, bucket |-> Some("F"), day |-> Some(2),
    favorite |-> TRUE, subfolderOverride |-> Some(<<"s","u","b">>)],
   [id |-> <<"k","3">>, timestamp |-> 1,
    filePath |-> <<"0","1","_","D","A","Y","S","/","D","a","y"," ","1","/","A","/","a",
    ".","j","p","g">>,
    originalName |-> <<"a",".","j","p","g">>, bucket |-> Some("A"), day |-> Some(1),
    favorite |-> TRUE, subfolderOverride |-> Undef],
   [id |-> <<"k","4">>, timestamp |-> 0,
    filePath |-> <<"0","1","_","D","A","Y","S","/","D","a","y"," ","1","/","b",".","m",
    "p","4">>,
    originalName |-> <<"b",".","m","p","4">>, bucket |-> Null, day |-> Some(1),
    favorite |-> FALSE, subfolderOverride |-> Null]>>

RECURSIVE DistinctPicks(_)
DistinctPicks(n) ==
  IF n = 0 THEN {<<>>}
  ELSE LET shorter == DistinctPicks(n - 1)
       IN shorter \cup
          {Append(q, i) : q \in {r \in shorter : Len(r) = n - 1},
                          i \in 1..Len(PhotoPool)}

PhotoLists ==
  {[i \in 1..Len(q) |-> PhotoPool[q[i]]] :
     q \in {r \in DistinctPicks(MaxPhotos) : HasNoRepeat(r)}}

SortOptionSets ==
  {[groupBy |-> g, separateVideos |-> v,
    selectedDay |-> IF g = "subfolder" THEN Some(1) ELSE Null] :
     g \in {"none", "subfolder", "bucket", "day"}, v \in BOOLEAN}

UNKNOWN_ID == <<"z","z">>

InitOrder ==
  /\ tree = <<>>
  /\ handle = FALSE
  /\ stored = NoState
  /\ ServiceIdle
  /\ HookInit
  /\ activeProject = Null
  /\ displayPhotos \in PhotoLists
  /\ sortOptions \in SortOptionSets
  /\ orderingResult = NoResult
  /\ sortedOwnOutput = FALSE
  /\ currentPhotoId = Null
  /\ navTrail = <<>>
  /\ EditIdle
  /\ DetectIdle
  /\ StoreIdle

\* sortPhotos(displayPhotos, options); the caller memoizes the result for
\* its input.
SortPhotos ==
  /\ orderingResult = NoResult
  /\ orderingResult' = sortPhotos(displayPhotos, sortOptions)
  /\ sortedOwnOutput' = FALSE
  /\ currentPhotoId' = Null
  /\ navTrail' = <<>>
  /\ UNCHANGED <<displayPhotos, sortOptions, serviceVars, hookVars, editVars, detectVars, storeVars>>

\* sortPhotos(result.photos, options): the result's photos are sorted again.
SortOwnOutput ==
  /\ orderingResult # NoResult
  /\ ~sortedOwnOutput
  /\ displayPhotos' = orderingResult.photos
  /\ orderingResult' = sortPhotos(orderingResult.photos, sortOptions)
  /\ sortedOwnOutput' = TRUE
  /\ currentPhotoId' = Null
  /\ navTrail' = <<>>
  /\ UNCHANGED <<sortOptions, serviceVars, hookVars, editVars, detectVars, storeVars>>

\* The viewer opens a photo, by an id that may be in no result.
OpenPhoto ==
  /\ orderingResult # NoResult
  /\ \E id \in {displayPhotos[n].id : n \in 1..Len(displayPhotos)} \cup {UNKNOWN_ID} :
       currentPhotoId' = Some(id)
  /\ navTrail' = <<>>
  /\ UNCHANGED <<displayPhotos, sortOptions, orderingResult, sortedOwnOutput,
                 serviceVars, hookVars, editVars, detectVars, storeVars>>

\* navigatePhotos(currentPhotoId, direction, result, filter); the viewer moves
\* to the photo returned.
Navigate ==
  /\ orderingResult # NoResult
  /\ currentPhotoId # Null
  /\ \E direction \in {"next", "prev"}, filter \in Filters :
       \E found \in {navigatePhotos(currentPhotoId.v, direction, orderingResult, filter)} :
         /\ navTrail' = (IF navTrail = <<>> THEN <<>> ELSE <<navTrail[Len(navTrail)]>>)
                        \o <<[from |-> currentPhotoId.v, direction |-> direction,
                              filter |-> filter, found |-> found]>>
         /\ currentPhotoId' = IF found # Null THEN Some(found.v.id) ELSE currentPhotoId
  /\ UNCHANGED <<displayPhotos, sortOptions, orderingResult, sortedOwnOutput,
                 serviceVars, hookVars, editVars, detectVars, storeVars>>

NextOrder == SortPhotos \/ SortOwnOutput \/ OpenPhoto \/ Navigate

SpecOrder == InitOrder /\ [][NextOrder]_vars

(***************************************************************************)
(* Reconciliation: properties of getState and saveState                    *)
(***************************************************************************)
\* The cached entries getState was given, and the entry for a path.
CachedEdits == ParseStored(call.stored).edits
CachedFor(filePath) ==
  IF IsSome(CachedEdits) THEN CachedEdit(CachedEdits.v, filePath) ELSE Undef

\* The folder segments of a path: all its segments but the file name.
FolderSegments(filePath) ==
  LET segments == SplitPath(filePath)
  IN SubSeq(segments, 1, Len(segments) - 1)

\* A folder segment equal to the configured archive-folder name, or holding
\* the token 'archive'.
InArchiveFolder(filePath, settings) ==
  \E i \in 1..Len(FolderSegments(filePath)) :
    LET segment == toLowerCase(FolderSegments(filePath)[i])
    IN \/ segment = toLowerCase(ArchiveFolderOf(settings))
       \/ includes(segment, <<"a","r","c","h","i","v","e">>)

\* C1: every returned photo that has a cached entry and no archive segment in
\* its path carries the cached day, bucket, sequence, favorite, rating,
\* archived, currentName and subfolderOverride, a cached bucket of null
\* included.
C1_CachedValuesWin ==
  ret.status = "resolved" =>
    \A i \in 1..Len(ret.state.photos) :
      LET photo == ret.state.photos[i]
          cached == CachedFor(photo.filePath)
      IN (/\ IsSome(cached)
          /\ ~HasArchiveSegment(photo.filePath, ArchiveFolderOf(ret.state.settings)))
         => /\ photo.day = cached.v.day
            /\ photo.bucket = cached.v.bucket
            /\ photo.sequence = cached.v.sequence
            /\ photo.favorite = cached.v.favorite
            /\ photo.rating = cached.v.rating
            /\ photo.archived = cached.v.archived
            /\ photo.currentName = cached.v.currentName
            /\ photo.subfolderOverride = cached.v.subfolderOverride

\* C2: every returned photo with an archive folder segment in its path is
\* archived and in bucket X, whatever its cached entry says.
C2_ArchiveFolderBeatsCache ==
  ret.status = "resolved" =>
    \A i \in 1..Len(ret.state.photos) :
      InArchiveFolder(ret.state.photos[i].filePath, ret.state.settings)
        => /\ ret.state.photos[i].archived = TRUE
           /\ ret.state.photos[i].bucket = Some("X")

\* A photo under an archive folder whose cached entry says it is not archived
\* and names bucket B has been returned.
C2_Witness ==
  /\ ret.status = "resolved"
  /\ \E i \in 1..Len(ret.state.photos) :
       /\ InArchiveFolder(ret.state.photos[i].filePath, ret.state.settings)
       /\ IsSome(CachedFor(ret.state.photos[i].filePath))
       /\ CachedFor(ret.state.photos[i].filePath).v.archived = FALSE
       /\ CachedFor(ret.state.photos[i].filePath).v.bucket = Some("B")

\* The supported, non-hidden files of the folder, by position.
Scannable ==
  {i \in 1..Len(tree) :
     /\ isSupportedFile(tree[i].name)
     /\ ~shouldSkipFile(tree[i].name)
     /\ \A d \in 1..Len(tree[i].dirs) : tree[i].dirs[d][1] # "."}
FingerprintOf(i) == <<tree[i].name, tree[i].lastModified, tree[i].size>>
\* The first file, in enumeration order, of each fingerprint.
FirstOfFingerprint ==
  {i \in Scannable : \A j \in Scannable : FingerprintOf(j) = FingerprintOf(i) => i <= j}

C4_ReconcileIdempotent ==
  Len(savedLog) = 2 => savedLog[2] = savedLog[1]

\* Two rounds have run on a project whose cache held edits, one of them for a
\* file that is no longer scanned.
C4_Witness ==
  /\ Len(savedLog) = 2
  /\ ~unsaved
  /\ stored = savedLog[2]
  /\ \E n \in 1..Len(stored.edits.v) : stored.edits.v[n].favorite = TRUE
  /\ Len(stored.edits.v) < Len(tree)

\* C5: with no supported, non-hidden file in the folder getState rejects, it
\* never returns a project without photos, and the stored serialized state is
\* the one the call started from.
C5_NoFilesRejects ==
  /\ (call # NoCall /\ Scannable = {}) =>
        /\ ret.status = "rejected"
        /\ stored = call.stored
  /\ ret.status = "resolved" => Len(ret.state.photos) > 0

\* getState has rejected, with permission granted, for a folder that holds
\* files but none to scan, and a stored state exists.
C5_Witness ==
  /\ ret.status = "rejected"
  /\ ret.message = MsgNoFiles
  /\ tree # <<>>
  /\ stored # NoState
  /\ stored = call.stored

\* The detection of a scanned photo's path, computed anew.
DetectionOf(photo) == analyzePathStructure(photo.filePath, DEFAULT_DAYS_FOLDER)

\* C11: every photo of a scan whose detection confidence is low or none has
\* day and bucket null, while its detectedDay and detectedBucket are the
\* detector's; a low confidence comes with a detected day.
C11_LowConfidenceNotApplied ==
  call # NoCall =>
    \A i \in 1..Len(call.scan) :
      call.scan[i].organizationConfidence \in {"low", "none"} =>
        /\ call.scan[i].day = Null
        /\ call.scan[i].bucket = Null
        /\ call.scan[i].detectedDay = DetectionOf(call.scan[i]).detectedDay
        /\ call.scan[i].detectedBucket = DetectionOf(call.scan[i]).detectedBucket
        /\ call.scan[i].organizationConfidence = "low" => IsSome(call.scan[i].detectedDay)

\* A photo in a numbered folder outside the days folder has been scanned:
\* day 2 detected at low confidence.
C11_Witness ==
  /\ call # NoCall
  /\ \E i \in 1..Len(call.scan) :
       /\ call.scan[i].organizationConfidence = "low"
       /\ call.scan[i].detectedDay = Some(2)
       /\ call.scan[i].day = Null

\* The returned photos that have no cached entry and no archive segment.
Untouched ==
  {i \in 1..Len(ret.state.photos) :
     /\ ~IsSome(CachedFor(ret.state.photos[i].filePath))
     /\ ~HasArchiveSegment(ret.state.photos[i].filePath,
                           ArchiveFolderOf(ret.state.settings))}

\* C12 as stated: every photo of a scan whose detection confidence is high or
\* medium starts with day = detectedDay and bucket = detectedBucket, and a
\* returned photo without a cached entry (and outside archive folders) still
\* has them.
C12_HighMediumApplied ==
  /\ call # NoCall =>
       \A i \in 1..Len(call.scan) :
         call.scan[i].organizationConfidence \in {"high", "medium"} =>
           /\ call.scan[i].day = call.scan[i].detectedDay
           /\ call.scan[i].bucket = call.scan[i].detectedBucket
  /\ ret.status = "resolved" =>
       \A i \in Untouched :
         ret.state.photos[i].organizationConfidence \in {"high", "medium"} =>
           /\ ret.state.photos[i].day = ret.state.photos[i].detectedDay
           /\ ret.state.photos[i].bucket = ret.state.photos[i].detectedBucket

\* C12 amended: every photo of a scan for which both a day and a bucket were
\* detected, at confidence high or medium, starts with day = detectedDay and
\* bucket = detectedBucket; a photo for which a day alone was detected starts
\* with day and bucket null; and a returned photo without a cached entry
\* (and outside archive folders) has the day and bucket it was scanned with.
C12_PreOrganizedApplied ==
  /\ call # NoCall =>
       \A i \in 1..Len(call.scan) :
         IF /\ IsSome(call.scan[i].detectedDay)
            /\ IsSome(call.scan[i].detectedBucket)
            /\ call.scan[i].organizationConfidence \in {"high", "medium"}
         THEN /\ call.scan[i].day = call.scan[i].detectedDay
              /\ call.scan[i].bucket = call.scan[i].detectedBucket
         ELSE /\ call.scan[i].day = Null
              /\ call.scan[i].bucket = Null
  /\ ret.status = "resolved" =>
       \A i \in Untouched :
         \E n \in 1..Len(call.scan) :
           /\ call.scan[n].filePath = ret.state.photos[i].filePath
           /\ ret.state.photos[i].day = call.scan[n].day
           /\ ret.state.photos[i].bucket = call.scan[n].bucket

\* A photo with a day and a bucket detected at medium confidence has been
\* returned, without a cached entry, with the detected values.
C12_Witness ==
  /\ ret.status = "resolved"
  /\ \E i \in Untouched :
       /\ ret.state.photos[i].organizationConfidence = "medium"
       /\ ret.state.photos[i].day = Some(2)
       /\ ret.state.photos[i].bucket = Some("B")

\* The paths of the files the scan keeps: the first of each fingerprint.
KeptPaths == {JoinDirs(tree[i].dirs, tree[i].name) : i \in FirstOfFingerprint}

\* The cached entries whose path no kept file has.
StaleEdits ==
  IF IsSome(CachedEdits)
  THEN {n \in 1..Len(CachedEdits.v) : CachedEdits.v[n].filePath \notin KeptPaths}
  ELSE {}

\* C15: the photos getState returns are, by path, exactly the files the scan
\* keeps, one photo each: a cached entry for another path gives no photo,
\* and with a file to scan the call resolves whatever the cache holds.
C15_PhotosAreTheScannedFiles ==
  /\ ret.status = "resolved" =>
       /\ {ret.state.photos[n].filePath : n \in 1..Len(ret.state.photos)} = KeptPaths
       /\ \A m, n \in 1..Len(ret.state.photos) :
            ret.state.photos[m].filePath = ret.state.photos[n].filePath => m = n
       /\ \A e \in StaleEdits : \A n \in 1..Len(ret.state.photos) :
            ret.state.photos[n].filePath # CachedEdits.v[e].filePath
  /\ (call # NoCall /\ call.scan # <<>>) => ret.status = "resolved"

\* A state has been returned for a cache that holds an entry for a file the
\* scan does not keep, next to an entry for one it keeps.
C15_Witness ==
  /\ ret.status = "resolved"
  /\ StaleEdits # {}
  /\ \E n \in 1..Len(ret.state.photos) : IsSome(CachedFor(ret.state.photos[n].filePath))

\* C23: of two scanned files whose names are equal but for letter case and
\* whose timestamps and sizes are equal, only the first enumerated has a
\* photo in the returned state.
C23_FingerprintIgnoresCase ==
  ret.status = "resolved" =>
    \A i, j \in Scannable :
      (/\ i < j
       /\ toLowerCase(tree[i].name) = toLowerCase(tree[j].name)
       /\ tree[i].lastModified = tree[j].lastModified
       /\ tree[i].size = tree[j].size)
        => \A n \in 1..Len(ret.state.photos) :
             ret.state.photos[n].filePath # JoinDirs(tree[j].dirs, tree[j].name)

(***************************************************************************)
(* Loading a project: properties                                           *)
(***************************************************************************)
\* C6: after a loadProject in which getState rejected, the photos, project
\* name, settings, day labels, day containers and project root path in memory
\* are the ones from before the call.
C6_FailedLoadKeepsProject ==
  (attempt.k = "loadProject" /\ attempt.status = "rejected") =>
     /\ photos = attempt.before.photos
     /\ projectName = attempt.before.projectName
     /\ projectSettings = attempt.before.projectSettings
     /\ dayLabels = attempt.before.dayLabels
     /\ dayContainers = attempt.before.dayContainers
     /\ projectRootPath = attempt.before.projectRootPath

\* A load has failed with a project in memory that an earlier load put there.
C6_Witness ==
  /\ attempt.k = "loadProject"
  /\ attempt.status = "rejected"
  /\ photos # <<>>
  /\ projectRootPath = Some(PROJECT_ID)
  /\ dayContainers # <<>>

\* C7: after a failed loadProject the permission retry is offered exactly
\* when permission was denied or revoked on a handle that is still stored; it
\* is not offered when no handle was stored or the scan found no files.
C7_RetryOnlyForDeniedPermission ==
  (attempt.k = "loadProject" /\ attempt.status = "rejected") =>
     (permissionRetryProjectId # Null
        <=> (attempt.cause \in {"denied", "requestFailed"} /\ handle))

(***************************************************************************)
(* Ordering and navigation: properties                                     *)
(***************************************************************************)
Sign(n) == IF n < 0 THEN -1 ELSE IF n > 0 THEN 1 ELSE 0

\* C8: on photos with distinct ids comparePhotos never returns 0 for two
\* different photos, is antisymmetric and is transitive; and sortPhotos given
\* the photos of its own result returns them in the same sequence.
C8_StrictTotalOrder ==
  /\ \E cmp \in {[i \in 1..Len(displayPhotos), j \in 1..Len(displayPhotos) |->
                     comparePhotos(displayPhotos[i], displayPhotos[j])]} :
       /\ \A i, j \in 1..Len(displayPhotos) :
            /\ i # j => cmp[i, j] # 0
            /\ Sign(cmp[i, j]) = -Sign(cmp[j, i])
       /\ \A i, j, k \in 1..Len(displayPhotos) :
            (cmp[i, j] < 0 /\ cmp[j, k] < 0) => cmp[i, k] < 0
  /\ sortedOwnOutput => orderingResult.photos = displayPhotos

\* A result holding two photos that differ in their ids only, and a third,
\* has been sorted again.
C8_Witness ==
  /\ sortedOwnOutput
  /\ Len(orderingResult.photos) = 3
  /\ \E i, j \in 1..Len(displayPhotos) :
       /\ i # j
       /\ displayPhotos[i].timestamp = displayPhotos[j].timestamp
       /\ PathOrName(displayPhotos[i]) = PathOrName(displayPhotos[j])
       /\ displayPhotos[i].originalName = displayPhotos[j].originalName

\* The group a photo belongs to under the sort options in force: its
\* subfolder label, its bucket, its day, or the one group of a flat result.
GroupKeyOf(photo) ==
  IF sortOptions.groupBy = "subfolder" /\ IsSome(sortOptions.selectedDay)
  THEN getSubfolderGroup(photo, sortOptions.selectedDay)
  ELSE IF sortOptions.groupBy = "bucket"
  THEN (IF IsSome(photo.bucket) /\ photo.bucket.v # "" THEN photo.bucket ELSE Null)
  ELSE IF sortOptions.groupBy = "day"
  THEN (IF IsSome(photo.day) THEN photo.day ELSE Null)
  ELSE "all"

\* The result for the same photos and options without video separation.
PlainResult == sortPhotos(displayPhotos, [sortOptions EXCEPT !.separateVideos = FALSE])

KeysAlong(photoSeq) == [n \in 1..Len(photoSeq) |-> GroupKeyOf(photoSeq[n])]

\* C16: with video separation the result holds the photos of the result
\* without it, group by group in the same places (and the same groups, labels
\* and start indices in subfolder mode); within a group, or within a flat
\* result, no video precedes a still, and two stills or two videos are in
\* comparator order.
C16_VideosLastWithinGroup ==
  (orderingResult # NoResult /\ sortOptions.separateVideos) =>
    /\ KeysAlong(orderingResult.photos) = KeysAlong(PlainResult.photos)
    /\ {orderingResult.photos[n] : n \in 1..Len(orderingResult.photos)}
         = {PlainResult.photos[n] : n \in 1..Len(PlainResult.photos)}
    /\ orderingResult.groups = PlainResult.groups
    /\ \A i, j \in 1..Len(orderingResult.photos) :
         (/\ i < j
          /\ GroupKeyOf(orderingResult.photos[i]) = GroupKeyOf(orderingResult.photos[j]))
         => /\ ~(/\ isVideoPhoto(orderingResult.photos[i])
                 /\ ~isVideoPhoto(orderingResult.photos[j]))
            /\ (isVideoPhoto(orderingResult.photos[i])
                  = isVideoPhoto(orderingResult.photos[j]))
               => comparePhotos(orderingResult.photos[i], orderingResult.photos[j]) < 0

\* Videos have been separated in a grouped result in which a still stands
\* before an older video of its group.
C16_Witness ==
  /\ orderingResult # NoResult
  /\ sortOptions.separateVideos
  /\ sortOptions.groupBy # "none"
  /\ \E i, j \in 1..Len(orderingResult.photos) :
       /\ i < j
       /\ GroupKeyOf(orderingResult.photos[i]) = GroupKeyOf(orderingResult.photos[j])
       /\ ~isVideoPhoto(orderingResult.photos[i])
       /\ isVideoPhoto(orderingResult.photos[j])
       /\ comparePhotos(orderingResult.photos[j], orderingResult.photos[i]) < 0

\* The place of a bucket in the fixed order: A, B, C, D, E, M, X, no bucket.
BucketPlace(key) ==
  IF key = Null THEN 8
  ELSE IF key.v = "X" THEN 7
  ELSE IF key.v = "M" THEN 6
  ELSE IndexIn(key.v, <<"A", "B", "C", "D", "E">>)

\* Whether the group of key a stands before the group of key b.
GroupPrecedes(a, b) ==
  IF sortOptions.groupBy = "bucket" THEN BucketPlace(a) < BucketPlace(b)
  ELSE IF sortOptions.groupBy = "day" THEN a # Null /\ (b = Null \/ a.v < b.v)
  ELSE a # b /\ (a = DayRoot \/ (b # DayRoot /\ localeCompare(a, b) < 0))

C29_ResultIsAPermutation ==
  orderingResult # NoResult =>
    /\ Len(orderingResult.photos) = Len(displayPhotos)
    /\ \A n \in 1..Len(displayPhotos) :
         Cardinality({m \in 1..Len(orderingResult.photos) :
                        orderingResult.photos[m] = displayPhotos[n]}) = 1

\* C30: in subfolder mode the groups tile the photos of the result: the
\* first group starts at 0, each group starts where the one before it ends,
\* the last ends with the result, and the photo at startIndex + i is the
\* group's i-th photo.
C30_GroupsTileTheResult ==
  (/\ orderingResult # NoResult
   /\ sortOptions.groupBy = "subfolder"
   /\ IsSome(sortOptions.selectedDay)) =>
    /\ IsSome(orderingResult.groups)
    /\ \E g \in {orderingResult.groups.v} :
         /\ \A k \in 1..Len(g) :
              /\ g[k].startIndex
                   = (IF k = 1 THEN 0 ELSE g[k - 1].startIndex + Len(g[k - 1].photos))
              /\ \A i \in 1..Len(g[k].photos) :
                   /\ g[k].startIndex + i <= Len(orderingResult.photos)
                   /\ orderingResult.photos[g[k].startIndex + i] = g[k].photos[i]
         /\ Len(orderingResult.photos)
              = (IF g = <<>> THEN 0 ELSE g[Len(g)].startIndex + Len(g[Len(g)].photos))

\* The place of a photo id in the result, counted from one; 0 for none.
PlaceOf(id) ==
  IF \E n \in 1..Len(orderingResult.photos) : orderingResult.photos[n].id = id
  THEN CHOOSE n \in 1..Len(orderingResult.photos) : orderingResult.photos[n].id = id
  ELSE 0

\* C9: 'next' without a filter from a photo of the result that is not its
\* last returns a photo, and 'prev' without a filter from that photo returns
\* the photo started from.
C9_NextThenPrevReturns ==
  /\ \A n \in 1..Len(navTrail) :
       (/\ navTrail[n].direction = "next"
        /\ navTrail[n].filter = "none"
        /\ PlaceOf(navTrail[n].from) \in 1..(Len(orderingResult.photos) - 1))
         => navTrail[n].found # Null
  /\ (/\ Len(navTrail) = 2
      /\ navTrail[1].direction = "next" /\ navTrail[1].filter = "none"
      /\ navTrail[2].direction = "prev" /\ navTrail[2].filter = "none"
      /\ PlaceOf(navTrail[1].from) \in 1..(Len(orderingResult.photos) - 1))
       => /\ navTrail[2].found # Null
          /\ navTrail[2].found.v.id = navTrail[1].from

\* 'next' then 'prev' has been stepped, without a filter, in a grouped result
\* of three photos.
C9_Witness ==
  /\ Len(navTrail) = 2
  /\ navTrail[1].direction = "next" /\ navTrail[1].filter = "none"
  /\ navTrail[2].direction = "prev" /\ navTrail[2].filter = "none"
  /\ navTrail[1].found # Null
  /\ navTrail[2].from = navTrail[1].found.v.id
  /\ Len(orderingResult.photos) = 3
  /\ sortOptions.groupBy # "none"

\* The places a filtered step from place p may return.
Candidates(step, p) ==
  {n \in 1..Len(orderingResult.photos) :
     /\ Matches(step.filter, orderingResult.photos[n])
     /\ IF step.direction = "next" THEN n > p ELSE n < p}

\* C10: with a filter navigatePhotos returns the matching photo nearest to
\* the current one in the direction, and null when there is none before the
\* end of the sequence or the current id is in no result.
C10_FilteredNavigation ==
  \A s \in 1..Len(navTrail) :
    LET step == navTrail[s]
        p == PlaceOf(step.from)
        c == Candidates(step, p)
    IN step.filter # "none" =>
         IF p = 0 \/ c = {} THEN step.found = Null
         ELSE /\ step.found # Null
              /\ PlaceOf(step.found.v.id) \in c
              /\ \A n \in c : IF step.direction = "next"
                              THEN PlaceOf(step.found.v.id) <= n
                              ELSE PlaceOf(step.found.v.id) >= n

\* A filtered step has passed over a photo that does not match, and another
\* has ended at the boundary with null although a match lies at the other end.
C10_Witness ==
  /\ Len(navTrail) = 2
  /\ navTrail[1].filter = "unassigned" /\ navTrail[2].filter = "unassigned"
  /\ navTrail[1].found # Null
  /\ PlaceOf(navTrail[1].found.v.id) - PlaceOf(navTrail[1].from) \in {2, -2}
  /\ navTrail[2].found = Null
  /\ navTrail[2].direction = navTrail[1].direction

(***************************************************************************)
(* Folder-name detection (extractDayFromFolderName,                        *)
(* detectBucketFromFolderName)                                             *)
(***************************************************************************)
\* The most characters of a folder name made up from DetectAlphabet.
MaxNameLen == 2

DetectAlphabet == {"A", "a", "B", "F", "g", "M", "X", "Z", "D", "d", "0", "1", "7", "_", "-"}

\* Folder names of users' trips and of the ingested layout.
NamedFolders ==
  {<<"D","a","y"," ","7">>, <<"D","0","7">>, <<"d","a","y","_","0","7","x">>,
   <<"7","_","S","o","m","e","t","h","i","n","g">>,
   <<"R","a","n","d","o","m"," ","F","o","l","d","e","r">>,
   <<"D","a","y"," ","4","5">>, <<"D","1","2","3">>, <<"D","a","y","0">>,
   <<"4","5","_","x">>, <<"7","x">>, <<"d","a","y">>,
   <<"2","0","2","4","-","0","3","-","1","5">>,
   <<"x","2","0","2","4","_","0","3","_","1","2","x">>,
   <<"7","_","2","0","2","4","-","0","3","-","1","5">>,
   <<"D","5"," ","2","0","2","4","-","0","3","-","1","5">>,
   <<"D","4","5"," ","2","0","2","4","-","0","3","-","1","5">>,
   <<"2","0","2","4","-","1","3","-","0","1">>,
   <<"2","0","2","4","-","0","3","-","0","5">>,
   <<"A","_","E","s","t","a","b","l","i","s","h","i","n","g">>,
   <<"a","-","e","s","t","a","b","l","i","s","h","i","n","g">>,
   <<"A","<en-dash>","E","s","t","a","b","l","i","s","h","i","n","g">>,
   <<"A","_","W","h","a","t","e","v","e","r">>,
   <<"C","_","C","u","l","t","u","r","e","-","D","e","t","a","i","l">>,
   <<"m"," ","-"," ","f","o","o","d","m","o","o","d">>,
   <<"X","<em-dash>","A","r","c","h","i","v","e">>,
   <<"A","E","s","t","a","b","l","i","s","h","i","n","g">>,
   <<"G","_","N","o","t","e","s">>, <<"Z","_","x">>,
   <<"0","1">>, <<"0","6">>, <<"0","7">>, <<"0","0">>}

DetectNames ==
  NamedFolders \cup UNION {[1..n -> DetectAlphabet] : n \in 0..MaxNameLen}

\* The trip starts handed to the detector: none, or 2024-03-10.
DetectStarts == {Undef, Some([y |-> 2024, m |-> 3, d |-> 10])}

InitDetect ==
  /\ tree = <<>>
  /\ handle = FALSE
  /\ stored = NoState
  /\ ServiceIdle
  /\ HookInit
  /\ activeProject = Null
  /\ OrderIdle
  /\ EditIdle
  /\ detectName \in DetectNames
  /\ detectStart \in DetectStarts
  /\ dayDetected = NotDetected
  /\ bucketDetected = NotDetected
  /\ PathIdle
  /\ StoreIdle

\* extractDayFromFolderName(folderName, tripStart)
ExtractDay ==
  /\ dayDetected = NotDetected
  /\ dayDetected' = extractDayFromFolderName(detectName, detectStart)
  /\ UNCHANGED <<detectName, detectStart, bucketDetected, detectPath, pathAnalysed,
                 serviceVars, hookVars, orderVars, editVars, storeVars>>

\* detectBucketFromFolderName(folderName)
DetectBucket ==
  /\ bucketDetected = NotDetected
  /\ bucketDetected' = detectBucketFromFolderName(detectName)
  /\ UNCHANGED <<detectName, detectStart, dayDetected, detectPath, pathAnalysed,
                 serviceVars, hookVars, orderVars, editVars, storeVars>>

NextDetect == ExtractDay \/ DetectBucket

SpecDetect == InitDetect /\ [][NextDetect]_vars

(***************************************************************************)
(* Path analysis (analyzePathStructure)                                    *)
(***************************************************************************)
\* The most folders of a path.
MaxPathDepth == 3

\* The folders of the paths: days folders, day folders of each pattern, bucket
\* folders of each pattern, a folder that is neither.
PathFolders ==
  {<<"0","1","_","D","A","Y","S">>, <<"D","a","y","s">>, <<"t","r","i","p">>,
   <<"D","a","y"," ","1">>, <<"D","2">>, <<"7","_","x">>,
   <<"2","0","2","4","-","0","3","-","1","5">>,
   <<"A">>, <<"B","_","x">>, <<"0","1">>, <<"x">>}

RECURSIVE FolderSeqs(_)
FolderSeqs(n) ==
  IF n = 0 THEN {<<>>}
  ELSE FolderSeqs(n - 1) \cup
       {Append(q, f) : q \in {r \in FolderSeqs(n - 1) : Len(r) = n - 1}, f \in PathFolders}

\* The options a caller passes: none, or the project's days folder.
DaysFolderOptions == {DEFAULT_DAYS_FOLDER, <<"T","r","i","p">>}

InitPath ==
  /\ tree = <<>>
  /\ handle = FALSE
  /\ stored = NoState
  /\ ServiceIdle
  /\ HookInit
  /\ activeProject = Null
  /\ OrderIdle
  /\ EditIdle
  /\ detectName = <<>>
  /\ detectStart = Undef
  /\ dayDetected = NotDetected
  /\ bucketDetected = NotDetected
  /\ detectPath \in {[filePath |-> JoinDirs(dirs, <<"a",".","j","p","g">>),
                       daysFolder |-> daysFolder] :
                        dirs \in FolderSeqs(MaxPathDepth), daysFolder \in DaysFolderOptions}
  /\ pathAnalysed = NotDetected
  /\ StoreIdle

\* analyzePathStructure(filePath, {daysFolder})
AnalyzePath ==
  /\ pathAnalysed = NotDetected
  /\ pathAnalysed' = analyzePathStructure(detectPath.filePath, detectPath.daysFolder)
  /\ UNCHANGED <<detectName, detectStart, dayDetected, bucketDetected, detectPath,
                 serviceVars, hookVars, orderVars, editVars, storeVars>>

NextPath == AnalyzePath

SpecPath == InitPath /\ [][NextPath]_vars

(***************************************************************************)
(* Folder-name detection: properties                                       *)
(***************************************************************************)
\* The numbers a name can be read as by the day-prefix pattern: the word
\* "day" or the letter "d" in either case, at most one separator, one or two
\* digits, and then no digit.
DayPrefixReadings(name) ==
  {ParseInt(SubSeq(name, Len(w) + Len(sep) + 1, Len(w) + Len(sep) + k)) :
     <<w, sep, k>> \in
       {<<w, sep, k>> \in {<<"d","a","y">>, <<"d">>}
                            \X ({<<>>} \cup {<<c>> : c \in DaySeparators})
                            \X {1, 2} :
          /\ Len(name) >= Len(w) + Len(sep) + k
          /\ toLowerCase(SubSeq(name, 1, Len(w))) = w
          /\ SubSeq(name, Len(w) + 1, Len(w) + Len(sep)) = sep
          /\ \A i \in (Len(w) + Len(sep) + 1)..(Len(w) + Len(sep) + k) : IsDigit(name[i])
          /\ Len(name) > Len(w) + Len(sep) + k => ~IsDigit(name[Len(w) + Len(sep) + k + 1])}}

\* The numbers a name can be read as by the numeric-prefix pattern: one or
\* two digits and a separator.
NumericPrefixReadings(name) ==
  {ParseInt(SubSeq(name, 1, k)) :
     k \in {k \in {1, 2} : /\ Len(name) > k
                           /\ \A i \in 1..k : IsDigit(name[i])
                           /\ name[k + 1] \in DaySeparators}}

\* The days the ISO dates of a name give, with hyphens or with underscores.
IsoReadings(name, start) ==
  {calculateDayFromDate(iso.v, start) :
     iso \in {iso \in {ISO_DATE_PATTERN(name), ISO_DATE_PATTERN_UNDERSCORES(name)} :
                IsSome(iso) /\ calculateDayFromDate(iso.v, start) # Null}}

DayIs(result, day, confidence) ==
  result.day = Some(day) /\ result.confidence = confidence

\* C18: day extraction returns the result of the first pattern that matches,
\* in the order day prefix (a number in 1..31, high), ISO date (high with a
\* trip start, medium without), numeric prefix (a number in 1..31, medium),
\* and a null day when none matches; 'Day 7', 'D07' and 'day_07x' give day 7
\* at high, '7_Something' gives day 7 at medium, 'Random Folder' gives null.
C18_FirstMatchingDayPattern ==
  dayDetected # NotDetected =>
    /\ IF DayPrefixReadings(detectName) \cap (1..31) # {}
       THEN /\ dayDetected.pattern = "day_prefix"
            /\ dayDetected.confidence = "high"
            /\ IsSome(dayDetected.day)
            /\ dayDetected.day.v \in DayPrefixReadings(detectName) \cap (1..31)
       ELSE IF IsoReadings(detectName, detectStart) # {}
       THEN /\ dayDetected.pattern = "iso_date"
            /\ dayDetected.confidence = (IF IsSome(detectStart) THEN "high" ELSE "medium")
            /\ dayDetected.day \in IsoReadings(detectName, detectStart)
       ELSE IF NumericPrefixReadings(detectName) \cap (1..31) # {}
       THEN /\ dayDetected.pattern = "numeric_prefix"
            /\ dayDetected.confidence = "medium"
            /\ IsSome(dayDetected.day)
            /\ dayDetected.day.v \in NumericPrefixReadings(detectName) \cap (1..31)
       ELSE dayDetected.day = Null
    /\ detectName \in {<<"D","a","y"," ","7">>, <<"D","0","7">>,
                       <<"d","a","y","_","0","7","x">>}
         => DayIs(dayDetected, 7, "high")
    /\ detectName = <<"7","_","S","o","m","e","t","h","i","n","g">>
         => DayIs(dayDetected, 7, "medium")
    /\ detectName = <<"R","a","n","d","o","m"," ","F","o","l","d","e","r">>
         => dayDetected.day = Null

\* A day has been extracted from an ISO date in a name that the numeric
\* prefix matches as well.
C18_Witness ==
  /\ dayDetected # NotDetected
  /\ dayDetected.pattern = "iso_date"
  /\ NumericPrefixReadings(detectName) \cap (1..31) # {}

\* C21: every day the detector returns, for any folder name and any trip
\* start, is an integer of at least 1.
C21_DetectedDayIsPositive ==
  (dayDetected # NotDetected /\ IsSome(dayDetected.day))
    => dayDetected.day.v \in Nat /\ dayDetected.day.v >= 1

\* The folders of the analysed path, and whether a folder is a days folder.
PathFoldersOf == FolderSegments(detectPath.filePath)
IsDaysFolder(segment) ==
  toLowerCase(segment) \in {toLowerCase(detectPath.daysFolder),
                            <<"0","1","_","d","a","y","s">>, <<"d","a","y","s">>}
\* The first days folder has a folder after it: the day is read there.
UnderDaysFolder ==
  \E i \in 1..(Len(PathFoldersOf) - 1) :
    /\ IsDaysFolder(PathFoldersOf[i])
    /\ \A j \in 1..(i - 1) : ~IsDaysFolder(PathFoldersOf[j])
DayReadFrom(i) == extractDayFromFolderName(PathFoldersOf[i], Undef)
\* The folder a day was found in, 0 for none: the folder after the days
\* folder, or else the first folder from the left that gives a day.
DayFolderPlace ==
  IF UnderDaysFolder
  THEN LET i == CHOOSE k \in 2..Len(PathFoldersOf) :
                  /\ IsDaysFolder(PathFoldersOf[k - 1])
                  /\ \A j \in 1..(k - 2) : ~IsDaysFolder(PathFoldersOf[j])
       IN IF IsSome(DayReadFrom(i).day) THEN i ELSE 0
  ELSE IF \E k \in 1..Len(PathFoldersOf) : IsSome(DayReadFrom(k).day)
  THEN CHOOSE k \in 1..Len(PathFoldersOf) :
         /\ IsSome(DayReadFrom(k).day)
         /\ \A j \in 1..(k - 1) : ~IsSome(DayReadFrom(j).day)
  ELSE 0
\* The day's confidence: the folder's own under the days folder, one tier
\* below it otherwise.
DayTier ==
  IF DayFolderPlace = 0 THEN "none"
  ELSE IF UnderDaysFolder THEN DayReadFrom(DayFolderPlace).confidence
  ELSE IF DayReadFrom(DayFolderPlace).confidence = "high" THEN "medium"
  ELSE "low"
\* The bucket found in the folder after the day's, NoBucket for none.
BucketFound ==
  IF DayFolderPlace # 0 /\ DayFolderPlace < Len(PathFoldersOf)
  THEN detectBucketFromFolderName(PathFoldersOf[DayFolderPlace + 1])
  ELSE NoBucket

\* Both a day and a bucket were found, and both at high confidence.
BothFound == DayFolderPlace # 0 /\ IsSome(BucketFound.bucket)
BothHigh == DayTier = "high" /\ BucketFound.confidence = "high"

\* C22 as stated: the overall confidence of a path is high exactly when a
\* day and a bucket were both found at high confidence, medium when both were
\* found otherwise, the day's confidence when only a day was found, and none
\* when no day was found; a day found outside a days folder counts one tier
\* below its folder's confidence.
C22_HighExactlyWhenBothHigh ==
  pathAnalysed # NotDetected =>
    /\ pathAnalysed.confidence = "high" <=> (BothFound /\ BothHigh)
    /\ (BothFound /\ ~BothHigh) => pathAnalysed.confidence = "medium"
    /\ (DayFolderPlace # 0 /\ ~BothFound) => pathAnalysed.confidence = DayTier
    /\ DayFolderPlace = 0 => pathAnalysed.confidence = "none"

\* C22, amended: when a day and a bucket were both found the overall
\* confidence of a path is high if both were found at high confidence and
\* medium otherwise; when only a day was found it is the day's confidence,
\* high included; when no day was found it is none.  A day found outside a
\* days folder counts one tier below its folder's confidence (high as
\* medium, anything else as low).
C22_OverallConfidenceByCase ==
  pathAnalysed # NotDetected =>
    /\ (BothFound /\ BothHigh) => pathAnalysed.confidence = "high"
    /\ (BothFound /\ ~BothHigh) => pathAnalysed.confidence = "medium"
    /\ (DayFolderPlace # 0 /\ ~BothFound) => pathAnalysed.confidence = DayTier
    /\ DayFolderPlace = 0 => pathAnalysed.confidence = "none"

\* A path outside any days folder whose day folder and bucket folder are
\* both of high confidence has been analysed as medium.
C22_Witness ==
  /\ pathAnalysed # NotDetected
  /\ ~UnderDaysFolder
  /\ DayFolderPlace # 0
  /\ DayReadFrom(DayFolderPlace).confidence = "high"
  /\ IsSome(BucketFound.bucket)
  /\ BucketFound.confidence = "high"
  /\ pathAnalysed.confidence = "medium"

\* new Set(MECE_BUCKETS.map(bucket => bucket.key))
MECE_BUCKET_KEYS == {"A", "B", "C", "D", "E", "M", "X"}

\* The name starts with a bucket letter in either case.
StartsWithBucketLetter(name) == name # <<>> /\ UpperChar(name[1]) \in MECE_BUCKET_KEYS

\* The name is a bucket letter, one or more separators and a category name.
IsStandardName(name) ==
  /\ StartsWithBucketLetter(name)
  /\ \E k \in 1..(Len(name) - 2) :
       /\ \A i \in 2..(k + 1) : name[i] \in HYPHEN_PATTERN
       /\ toLowerCase(SubSeq(name, k + 2, Len(name))) \in BucketCategories

\* The name is a bucket letter, a separator and at least one more character.
IsLetterWithSuffix(name) ==
  StartsWithBucketLetter(name) /\ Len(name) >= 3 /\ name[2] \in HYPHEN_PATTERN

\* The legacy codes '01'..'06' and the bucket each stands for.
LegacyCodes ==
  [code \in {<<"0", d>> : d \in {"1", "2", "3", "4", "5", "6"}} |->
     <<"A", "B", "C", "D", "E", "M">>[DigitVal(code[2])]]

BucketIs(result, bucket, confidence) ==
  result.bucket = Some(bucket) /\ result.confidence = confidence

\* C19: bucket extraction returns the result of the first pattern that
\* matches, in the order bucket letter plus category name (high), bare bucket
\* letter (high), bucket letter plus any suffix (medium), legacy code
\* '01'..'06' (low), and null when none matches; 'A_Establishing',
\* 'a-establishing' and 'A', an en dash, 'Establishing' give A at high, 'A'
\* gives A at high, 'A_Whatever' gives A at medium, '01' gives the bucket of
\* the legacy table at low.
C19_FirstMatchingBucketPattern ==
  bucketDetected # NotDetected =>
    /\ IF IsStandardName(detectName)
       THEN BucketIs(bucketDetected, UpperChar(detectName[1]), "high")
       ELSE IF Len(detectName) = 1 /\ StartsWithBucketLetter(detectName)
       THEN BucketIs(bucketDetected, UpperChar(detectName[1]), "high")
       ELSE IF IsLetterWithSuffix(detectName)
       THEN BucketIs(bucketDetected, UpperChar(detectName[1]), "medium")
       ELSE IF detectName \in DOMAIN LegacyCodes
       THEN BucketIs(bucketDetected, LegacyCodes[detectName], "low")
       ELSE bucketDetected.bucket = Null
    /\ detectName \in {<<"A","_","E","s","t","a","b","l","i","s","h","i","n","g">>,
                       <<"a","-","e","s","t","a","b","l","i","s","h","i","n","g">>,
                       <<"A","<en-dash>","E","s","t","a","b","l","i","s","h","i","n","g">>,
                       <<"A">>}
         => BucketIs(bucketDetected, "A", "high")
    /\ detectName = <<"A","_","W","h","a","t","e","v","e","r">>
         => BucketIs(bucketDetected, "A", "medium")
    /\ detectName = <<"0","1">> => BucketIs(bucketDetected, "A", "low")

\* C20: every bucket the detection returns, for any folder name, is one of
\* the seven bucket codes A, B, C, D, E, M, X.
C20_DetectedBucketIsACode ==
  (bucketDetected # NotDetected /\ IsSome(bucketDetected.bucket))
    => bucketDetected.bucket.v \in MECE_BUCKET_KEYS

(***************************************************************************)
(* Editing a project (useHistory, usePhotoMutations, useDayEditing,        *)
(* handleOnboardingComplete)                                               *)
(***************************************************************************)
\* newHistory.slice(-30)
HISTORY_CAP == 30

\* seq.slice(-n)
LastN(seq, n) == IF Len(seq) <= n THEN seq ELSE SubSeq(seq, Len(seq) - n + 1, Len(seq))

\* The snapshot saveToHistory takes of a photo.
SnapshotOf(photo) ==
  [id |-> photo.id,
   filePath |-> photo.filePath,
   day |-> photo.day,
   bucket |-> photo.bucket,
   sequence |-> photo.sequence,
   favorite |-> photo.favorite,
   rating |-> photo.rating,
   archived |-> photo.archived,
   currentName |-> photo.currentName,
   originalName |-> photo.originalName,
   timestamp |-> photo.timestamp,
   subfolderOverride |-> photo.subfolderOverride]

\* history.slice(0, historyIndex + 1), the snapshot of the current photos
\* pushed, the last 30 kept
PushedHistory(past, index, currentPhotos) ==
  LastN(Append(SubSeq(past, 1, index + 1), SeqMap(SnapshotOf, currentPhotos)),
        HISTORY_CAP)

\* { ...photo, ...snap }
RestoredFrom(photo, snap) ==
  [photo EXCEPT !.id = snap.id,
                !.filePath = snap.filePath,
                !.day = snap.day,
                !.bucket = snap.bucket,
                !.sequence = snap.sequence,
                !.favorite = snap.favorite,
                !.rating = snap.rating,
                !.archived = snap.archived,
                !.currentName = snap.currentName,
                !.originalName = snap.originalName,
                !.timestamp = snap.timestamp,
                !.subfolderOverride = snap.subfolderOverride]

\* photos.map(photo => snapshot.find(s => s.id === photo.id) ...)
RestoredPhotos(currentPhotos, snapshot) ==
  LET restore(photo) ==
        IF \E i \in 1..Len(snapshot) : snapshot[i].id = photo.id
        THEN RestoredFrom(photo, snapshot[FirstIndex({i \in 1..Len(snapshot) :
                                                       snapshot[i].id = photo.id})])
        ELSE photo
  IN SeqMap(restore, currentPhotos)

\* The state persistState hands to saveState: no dayContainers and no
\* lastModified.  A stored state without day containers (or day labels) is
\* read back as one with none (stored.dayContainers || []), and is held as
\* one with none.
PersistedState(name, label, root, newPhotos, settings, labels) ==
  [projectName |-> name,
   rootPath |-> IF label # Null THEN label.v ELSE root.v,
   photos |-> newPhotos,
   settings |-> settings,
   dayLabels |-> labels,
   dayContainers |-> <<>>,
   lastModified |-> Undef]

\* String(n) for 0 <= n < 1000
NumberString(n) ==
  IF n < 10 THEN <<Digits[n + 1]>>
  ELSE IF n < 100 THEN <<Digits[(n \div 10) + 1], Digits[(n % 10) + 1]>>
  ELSE <<Digits[(n \div 100) + 1], Digits[((n \div 10) % 10) + 1], Digits[(n % 10) + 1]>>

\* str.padStart(width, '0')
padStart(str, width) ==
  [i \in 1..(width - Len(str)) |-> "0"] \o str

\* `D${pad2(day)}_${bucket}_${pad3(next)}__${originalName}`
BucketFileName(day, bucket, next, originalName) ==
  <<"D">> \o padStart(NumberString(day), 2) \o <<"_", bucket, "_">>
  \o padStart(NumberString(next), 3) \o <<"_", "_">> \o originalName

\* dayNum || photo.day || selectedDay || Math.ceil(getDate / 1): a day of 0
\* is passed over like null.
FirstTruthyDay(dayNum, photoDay, selectedDay, getDate) ==
  IF IsSome(dayNum) /\ dayNum.v # 0 THEN dayNum.v
  ELSE IF IsSome(photoDay) /\ photoDay.v # 0 THEN photoDay.v
  ELSE IF IsSome(selectedDay) /\ selectedDay.v # 0 THEN selectedDay.v
  ELSE getDate

\* An un-assignment that leaves the archived flag as it is.
AssignedPhoto_KeepsArchived(photo, bucket, day, next) ==
  IF bucket = ""
  THEN [photo EXCEPT !.bucket = Null, !.sequence = Null,
                     !.currentName = photo.originalName]
  ELSE [photo EXCEPT !.bucket = Some(bucket), !.day = Some(day),
                     !.sequence = Some(next),
                     !.currentName = IF bucket = "X" THEN photo.originalName
                                     ELSE BucketFileName(day, bucket, next,
                                                         photo.originalName),
                     !.archived = (bucket = "X")]

\* What assignBucket returns for a photo among the ids.
AssignedPhoto(photo, bucket, day, next) ==
  IF bucket = ""
  THEN [photo EXCEPT !.bucket = Null, !.sequence = Null, !.archived = FALSE,
                     !.currentName = photo.originalName]
  ELSE [photo EXCEPT !.bucket = Some(bucket), !.day = Some(day),
                     !.sequence = Some(next),
                     !.currentName = IF bucket = "X" THEN photo.originalName
                                     ELSE BucketFileName(day, bucket, next,
                                                         photo.originalName),
                     !.archived = (bucket = "X")]

\* (counters[key] || existing) + 1, counters holding the days counted so far
NextSequence(allPhotos, counters, bucket, day) ==
  IF day \in DOMAIN counters THEN counters[day] + 1
  ELSE Cardinality({i \in 1..Len(allPhotos) :
                      allPhotos[i].day = Some(day) /\ allPhotos[i].bucket = Some(bucket)}) + 1

\* photos.map of assignBucket from photo i on.
RECURSIVE AssignFrom(_, _, _, _, _, _, _)
AssignFrom(allPhotos, i, ids, bucket, dayNum, gesture, counters) ==
  IF i > Len(allPhotos) THEN <<>>
  ELSE IF allPhotos[i].id \notin ids
  THEN <<allPhotos[i]>>
       \o AssignFrom(allPhotos, i + 1, ids, bucket, dayNum, gesture, counters)
  ELSE IF bucket = ""
  THEN <<AssignedPhoto(allPhotos[i], bucket, 0, 0)>>
       \o AssignFrom(allPhotos, i + 1, ids, bucket, dayNum, gesture, counters)
  ELSE LET day == FirstTruthyDay(dayNum, allPhotos[i].day, gesture.selectedDay,
                                 gesture.getDate)
           next == NextSequence(allPhotos, counters, bucket, day)
       IN <<AssignedPhoto(allPhotos[i], bucket, day, next)>>
          \o AssignFrom(allPhotos, i + 1, ids, bucket, dayNum, gesture,
                        (day :> next) @@ counters)

assignBucket(allPhotos, ids, bucket, dayNum, gesture) ==
  AssignFrom(allPhotos, 1, ids, bucket, dayNum, gesture, <<>>)

removeDayAssignment(allPhotos, ids) ==
  [i \in 1..Len(allPhotos) |->
     IF allPhotos[i].id \in ids THEN [allPhotos[i] EXCEPT !.day = Null]
     ELSE allPhotos[i]]

toggleFavorite(allPhotos, ids) ==
  [i \in 1..Len(allPhotos) |->
     IF allPhotos[i].id \in ids
     THEN [allPhotos[i] EXCEPT !.favorite = ~allPhotos[i].favorite]
     ELSE allPhotos[i]]

\* photos.map(ph => ph.id === selectedId ? { ...ph, currentName: nameInput } : ph)
RenamedPhotos(allPhotos, selectedId, nameInput) ==
  [i \in 1..Len(allPhotos) |->
     IF allPhotos[i].id = selectedId THEN [allPhotos[i] EXCEPT !.currentName = nameInput]
     ELSE allPhotos[i]]

\* photos.map(p => (p.id === photoId ? { ...p, day } : p))
DayAssignedPhotos(allPhotos, photoId, day) ==
  [i \in 1..Len(allPhotos) |->
     IF allPhotos[i].id = photoId THEN [allPhotos[i] EXCEPT !.day = Some(day)]
     ELSE allPhotos[i]]

\* const gapThreshold = 6 * 60 * 60 * 1000
GAP_THRESHOLD == 21600000

\* clusterPhotosByTime: the day of each photo id, a new day after a gap.
RECURSIVE ClusterFrom(_, _, _, _)
ClusterFrom(scanned, i, currentDay, lastTime) ==
  IF i > Len(scanned) THEN <<>>
  ELSE LET day == IF scanned[i].timestamp - lastTime > GAP_THRESHOLD
                  THEN currentDay + 1 ELSE currentDay
       IN (scanned[i].id :> day)
          @@ ClusterFrom(scanned, i + 1, day, scanned[i].timestamp)
clusterPhotosByTime(scanned) ==
  IF scanned = <<>> THEN <<>> ELSE ClusterFrom(scanned, 1, 1, scanned[1].timestamp)

\* applySuggestedDays(sourcePhotos, suggestedDays)
applySuggestedDays(sourcePhotos, suggestedDays) ==
  [i \in 1..Len(sourcePhotos) |->
     IF sourcePhotos[i].id \in DOMAIN suggestedDays
     THEN [sourcePhotos[i] EXCEPT !.day = Some(suggestedDays[sourcePhotos[i].id])]
     ELSE sourcePhotos[i]]

MsgInitRequestFailed ==
  <<"U","n","a","b","l","e"," ","t","o"," ","r","e","q","u","e","s","t"," ",
    "f","o","l","d","e","r"," ","a","c","c","e","s","s","."," ","P","l","e",
    "a","s","e"," ","t","r","y"," ","a","g","a","i","n",".">>
MsgInitNotGranted ==
  <<"F","o","l","d","e","r"," ","a","c","c","e","s","s"," ","w","a","s"," ",
    "n","o","t"," ","g","r","a","n","t","e","d","."," ","P","l","e","a","s",
    "e"," ","a","l","l","o","w"," ","a","c","c","e","s","s"," ","t","o"," ",
    "c","r","e","a","t","e"," ","t","h","e"," ","p","r","o","j","e","c","t",
    ".">>

\* initProject({dirHandle, projectName, rootLabel}): the photos it returns
\* and the days it suggests, or the message it throws.
initProject(folder, env) ==
  IF env = "unsupported" THEN [status |-> "rejected", message |-> MsgUnsupported]
  ELSE IF env = "throws" THEN [status |-> "rejected", message |-> MsgInitRequestFailed]
  ELSE IF env # "granted" THEN [status |-> "rejected", message |-> MsgInitNotGranted]
  ELSE [status |-> "resolved",
        photos |-> applyArchiveFolder(buildPhotosFromHandle(folder),
                                      DEFAULT_SETTINGS.folderStructure.archiveFolder),
        suggestedDays |->
          clusterPhotosByTime(
            applyArchiveFolder(buildPhotosFromHandle(folder),
                               DEFAULT_SETTINGS.folderStructure.archiveFolder))]

\* The most user mutations of a session.
MaxEdits == 4

\* Date.now() at an edit
EditTimes == {12}

\* The folders a project is edited in: a photo in the archive folder, two
\* photos of one day (one in a bucket folder).
EditTrees ==
  {<<FilePool[3]>>, <<FilePool[1], FilePool[8]>>}

\* The state an earlier session left for the folder, if any.
EditStores(files) ==
  {NoState} \cup
  {[k |-> "state", projectName |-> "Trip", rootPath |-> "Trips",
    settings |-> DEFAULT_SETTINGS, dayLabels |-> <<"Arrival">>,
    dayContainers |-> <<>>,
    lastModified |-> Some(5),
    edits |-> Some(InitialEdits(files, "archived", 1))]}

InitEdit ==
  /\ tree \in EditTrees
  /\ stored \in EditStores(tree)
  /\ handle = (stored # NoState)
  /\ ServiceIdle
  /\ HookInit
  /\ OrderIdle
  /\ EditIdle
  /\ DetectIdle
  /\ StoreIdle

\* The user's gestures: the bucket key pressed, the photos selected, the day
\* open in the gallery, and the local day of the month of the photos' time.
AssignGestures ==
  {[bucket |-> "A", which |-> "first", selectedDay |-> Some(2), getDate |-> 1],
   [bucket |-> "A", which |-> "all", selectedDay |-> Some(2), getDate |-> 1],
   [bucket |-> "X", which |-> "all", selectedDay |-> Null, getDate |-> 31],
   [bucket |-> "", which |-> "first", selectedDay |-> Null, getDate |-> 1]}

SelectedIds(which) ==
  IF which = "first" THEN {photos[1].id}
  ELSE {photos[i].id : i \in 1..Len(photos)}

EditCount == IF lastEdit = NoCall THEN 0 ELSE lastEdit.n

CanEdit == photos # <<>> /\ EditCount < MaxEdits

\* What is kept of a mutation: its kind, the photos it started from, the
\* kind and starting photos of the mutation before it, and whether the
\* session's mutations so far were all assignBucket calls.
EditRecord(kind) ==
  [k |-> kind, n |-> EditCount + 1, before |-> photos,
   prev |-> IF lastEdit = NoCall THEN NoCall
            ELSE [k |-> lastEdit.k, before |-> lastEdit.before],
   assignsOnly |-> kind = "assignBucket" /\ (lastEdit = NoCall \/ lastEdit.assignsOnly)]

\* persistState(newPhotos), with the day labels of the render the handler
\* was created in
persistState(newPhotos) ==
  \E now \in EditTimes :
    stored' = IF projectRootPath = Null THEN stored
              ELSE serializeState(PersistedState(projectName, projectFolderLabel,
                                                 projectRootPath, newPhotos,
                                                 projectSettings, dayLabels), now)

\* saveToHistory(newPhotos)
saveToHistory(newPhotos) ==
  /\ history' = PushedHistory(history, historyIndex, photos)
  /\ historyIndex' = Len(history') - 1
  /\ photos' = newPhotos
  /\ persistState(newPhotos)

EditFrame ==
  UNCHANGED <<tree, handle, ret, call, unsaved, savedLog, projectName,
              projectRootPath, projectFolderLabel, projectSettings, dayContainers,
              recentProjects, activeProject, showWelcome, projectError,
              permissionRetryProjectId, attempt, orderVars, detectVars, storeVars>>

\* assignBucket(photoIds, bucket) from the gallery or the viewer
AssignBucket ==
  /\ CanEdit
  /\ \E gesture \in AssignGestures :
       saveToHistory(assignBucket(photos, SelectedIds(gesture.which), gesture.bucket,
                                  Null, gesture))
  /\ lastEdit' = EditRecord("assignBucket")
  /\ UNCHANGED dayLabels
  /\ EditFrame

\* removeDayAssignment(photoIds)
RemoveDayAssignment ==
  /\ CanEdit
  /\ saveToHistory(removeDayAssignment(photos, SelectedIds("first")))
  /\ lastEdit' = EditRecord("removeDayAssignment")
  /\ UNCHANGED dayLabels
  /\ EditFrame

\* toggleFavorite(photoIds)
ToggleFavorite ==
  /\ CanEdit
  /\ saveToHistory(toggleFavorite(photos, SelectedIds("first")))
  /\ lastEdit' = EditRecord("toggleFavorite")
  /\ UNCHANGED dayLabels
  /\ EditFrame

\* The sidebar's save of a new name for the selected photo.
Rename ==
  /\ CanEdit
  /\ saveToHistory(RenamedPhotos(photos, photos[1].id, <<"n",".","j","p","g">>))
  /\ lastEdit' = EditRecord("rename")
  /\ UNCHANGED dayLabels
  /\ EditFrame

\* The grid's onAssignDay(photoId, day): setPhotos and persistState, no
\* history.
AssignDay ==
  /\ CanEdit
  /\ photos' = DayAssignedPhotos(photos, photos[1].id, 3)
  /\ persistState(photos')
  /\ lastEdit' = EditRecord("assignDay")
  /\ UNCHANGED <<history, historyIndex, dayLabels>>
  /\ EditFrame

\* undo()
Undo ==
  /\ CanEdit
  /\ historyIndex > 0
  /\ photos' = RestoredPhotos(photos, history[historyIndex])
  /\ historyIndex' = historyIndex - 1
  /\ persistState(photos')
  /\ lastEdit' = EditRecord("undo")
  /\ UNCHANGED <<history, dayLabels>>
  /\ EditFrame

\* redo()
Redo ==
  /\ CanEdit
  /\ historyIndex < Len(history) - 1
  /\ photos' = RestoredPhotos(photos, history[historyIndex + 2])
  /\ historyIndex' = historyIndex + 1
  /\ persistState(photos')
  /\ lastEdit' = EditRecord("redo")
  /\ UNCHANGED <<history, dayLabels>>
  /\ EditFrame

\* saveDayName(day) with the name typed: setDayLabels, persistState(photos),
\* setEditingDay(null)
SaveDayName ==
  /\ CanEdit
  /\ dayLabels' = (1 :> "Beach") @@ dayLabels
  /\ persistState(photos)
  /\ lastEdit' = EditRecord("saveDayName")
  /\ UNCHANGED <<photos, history, historyIndex>>
  /\ EditFrame

\* handleOnboardingComplete(state) for a new project without folder
\* mappings, named 'Trip' at 'Trips', and the history reset that follows it.
CompleteOnboarding ==
  /\ projectRootPath = Null
  /\ stored = NoState
  /\ \E env \in {"granted", "denied", "throws"}, now \in EditTimes :
       IF env = "granted"
       THEN /\ photos' = applySuggestedDays(initProject(tree, env).photos,
                                            initProject(tree, env).suggestedDays)
            /\ projectName' = "Trip"
            /\ projectRootPath' = Some(PROJECT_ID)
            /\ projectFolderLabel' = Some("Trips")
            /\ projectSettings' = DEFAULT_SETTINGS
            /\ showWelcome' = FALSE
            /\ activeProject' = Some(PROJECT_ID)
            /\ recentProjects' =
                 updateRecentProjects(recentProjects,
                   [projectId |-> PROJECT_ID, projectName |-> "Trip",
                    rootPath |-> "Trips", totalPhotos |-> Len(photos')])
            /\ handle' = TRUE
            /\ stored' = serializeState(
                           [projectName |-> "Trip", rootPath |-> "Trips",
                            photos |-> photos', settings |-> DEFAULT_SETTINGS,
                            dayLabels |-> <<>>, dayContainers |-> <<>>,
                            lastModified |-> Undef], now)
            /\ projectError' = Null
            /\ permissionRetryProjectId' = Null
            /\ history' = <<>>
            /\ historyIndex' = -1
       ELSE /\ projectError' = Some(initProject(tree, env).message)
            /\ showWelcome' = TRUE
            /\ UNCHANGED <<photos, projectName, projectRootPath, projectFolderLabel,
                           projectSettings, activeProject, recentProjects, handle,
                           stored, permissionRetryProjectId, history, historyIndex>>
  /\ UNCHANGED <<tree, ret, call, unsaved, savedLog, dayLabels, dayContainers,
                 attempt, lastEdit, orderVars, detectVars, storeVars>>

\* loadProject(projectId) at the start of a session.
OpenProject == projectRootPath = Null /\ LoadProject

NextEdit ==
  \/ CompleteOnboarding \/ OpenProject
  \/ AssignBucket \/ RemoveDayAssignment \/ ToggleFavorite \/ Rename \/ AssignDay
  \/ Undo \/ Redo \/ SaveDayName

SpecEdit == InitEdit /\ [][NextEdit]_vars

(***************************************************************************)
(* Undo and redo: properties                                               *)
(***************************************************************************)
\* The mutations that go through saveToHistory.
SavedEdits == {"assignBucket", "removeDayAssignment", "toggleFavorite", "rename"}

\* The editable fields of the photos, with their ids.
EditableFields(photoList) == SeqMap(SnapshotOf, photoList)

\* C26: an undo right after an edit made through saveToHistory leaves the
\* photos with the fields they had before that edit, and an undo is there
\* to take after every such edit, the first included.
C26_UndoRestoresBeforeEdit ==
  /\ (lastEdit # NoCall /\ lastEdit.k = "undo" /\ lastEdit.prev.k \in SavedEdits)
       => EditableFields(photos) = EditableFields(lastEdit.prev.before)
  /\ (lastEdit # NoCall /\ lastEdit.k \in SavedEdits) => historyIndex > 0

\* C27: a redo right after an undo that changed the photos leaves the photos
\* with the fields they had before that undo.
C27_RedoRestoresBeforeUndo ==
  (/\ lastEdit # NoCall
   /\ lastEdit.k = "redo"
   /\ lastEdit.prev.k = "undo"
   /\ EditableFields(lastEdit.before) # EditableFields(lastEdit.prev.before))
    => EditableFields(photos) = EditableFields(lastEdit.prev.before)

\* C28: after assignBucket calls only, no two photos with the same day and
\* the same bucket other than the archive bucket have the same sequence
\* number.
C28_SequenceUniqueInDayBucket ==
  (lastEdit # NoCall /\ lastEdit.assignsOnly) =>
    \A i, j \in 1..Len(photos) :
      (/\ i # j
       /\ photos[i].day = photos[j].day
       /\ IsSome(photos[i].bucket)
       /\ photos[i].bucket = photos[j].bucket
       /\ photos[i].bucket.v # "X"
       /\ IsSome(photos[i].sequence))
        => photos[i].sequence # photos[j].sequence

(***************************************************************************)
(* Storage (safeLocalStorage, deleteProject, the delete-project handler)   *)
(***************************************************************************)
\* What the browser's localStorage does: it works, it is full (setItem
\* throws), or access to it is blocked (every operation throws).
StorageEnvironments == {"ok", "quota", "blocked"}

\* What IndexedDB does for the handle store: it works, the open times out or
\* fails, or the transaction fails.
DbEnvironments == {"ok", "dbTimeout", "txError"}

\* localStorage.getItem / setItem / removeItem on the slot of one key: the
\* slot's value is Null for an absent key.
getItem(slot, env) == [threw |-> env = "blocked", value |-> slot]
setItem(slot, value, env) ==
  [threw |-> env # "ok", slot |-> IF env = "ok" THEN value ELSE slot]
removeItem(slot, env) ==
  [threw |-> env = "blocked", slot |-> IF env = "blocked" THEN slot ELSE Null]

\* safeLocalStorage.get(key)
safeLocalStorage_get(slot, env) ==
  [threw |-> FALSE,
   value |-> IF getItem(slot, env).threw THEN Null ELSE getItem(slot, env).value,
   slot |-> slot]

\* The write has happened: the value is read back and compared, and a
\* failure of either is thrown again by the catch block.
VerifiedWrite(written, value, env) ==
  [threw |-> \/ written.threw
             \/ getItem(written.slot, env).threw
             \/ getItem(written.slot, env).value # value,
   slot |-> written.slot]

\* safeLocalStorage.set(key, value)
safeLocalStorage_set(slot, value, env) ==
  VerifiedWrite(setItem(slot, value, env), value, env)

\* safeLocalStorage.remove(key)
safeLocalStorage_remove(slot, env) ==
  [threw |-> FALSE, slot |-> removeItem(slot, env).slot]

\* deleteProject(projectId): both removals are in a try block whose catch
\* ignores the error, and the call resolves.
deleteProject(storedState, hasHandle, lsEnv, dbEnv) ==
  [status |-> "resolved",
   state |-> safeLocalStorage_remove(storedState, lsEnv).slot,
   handle |-> IF dbEnv = "ok" THEN FALSE ELSE hasHandle]

\* The handler's update of the recent projects: the list is read, filtered
\* and written back, and the list in memory is set after the write.
RecentAfterDelete(recent, projectId, env) ==
  LET raw == safeLocalStorage_get(Some(recent), env).value
      parsed == IF IsSome(raw) THEN raw.v ELSE <<>>
      filtered == SelectSeq(parsed, LAMBDA project : project.projectId # projectId)
  IN IF safeLocalStorage_set(Some(recent), Some(filtered), env).threw
     THEN recent ELSE filtered

\* The keys of localStorage: the project's state and the active project.
StorageKeys == {"state", "active"}

\* The folders of the projects: one photo in a bucket folder, one in the
\* archive folder.
StoreTrees == {<<FilePool[1]>>, <<FilePool[3]>>}

\* The states a save writes under the state key.
WrittenStates(files) ==
  {st \in InitialStores(files) : st # NoState /\ st.settings = DEFAULT_SETTINGS}

InitStore ==
  /\ tree \in StoreTrees
  /\ handle \in BOOLEAN
  /\ stored \in InitialStores(tree)
  /\ ServiceIdle
  /\ HookInit
  /\ OrderIdle
  /\ EditIdle
  /\ DetectIdle
  /\ StoreIdle

\* safeLocalStorage.get(key)
SafeGet ==
  /\ \E key \in StorageKeys, env \in StorageEnvironments :
       LET got == safeLocalStorage_get(IF key = "state" THEN stored ELSE activeProject, env)
       IN storageCall' = [k |-> "get", key |-> key, env |-> env,
                          threw |-> got.threw, value |-> got.value]
  /\ UNCHANGED <<serviceVars, hookVars, orderVars, editVars, detectVars>>

\* safeLocalStorage.set(key, value)
SafeSet ==
  /\ \E key \in StorageKeys, env \in StorageEnvironments :
       \E value \in IF key = "state" THEN WrittenStates(tree)
                     ELSE {Some(PROJECT_ID)} :
         LET written == safeLocalStorage_set(IF key = "state" THEN stored
                                             ELSE activeProject, value, env)
         IN /\ storageCall' = [k |-> "set", key |-> key, env |-> env,
                                threw |-> written.threw]
            /\ stored' = IF key = "state" THEN written.slot ELSE stored
            /\ activeProject' = IF key = "active" THEN written.slot ELSE activeProject
  /\ UNCHANGED <<tree, handle, ret, call, unsaved, savedLog, memoryVars, recentProjects,
                 showWelcome, projectError, permissionRetryProjectId, attempt,
                 orderVars, editVars, detectVars>>

\* safeLocalStorage.remove(key)
SafeRemove ==
  /\ \E key \in StorageKeys, env \in StorageEnvironments :
       LET removed == safeLocalStorage_remove(IF key = "state" THEN stored
                                              ELSE activeProject, env)
       IN /\ storageCall' = [k |-> "remove", key |-> key, env |-> env,
                              threw |-> removed.threw]
          /\ stored' = IF key = "state" THEN removed.slot ELSE stored
          /\ activeProject' = IF key = "active" THEN removed.slot ELSE activeProject
  /\ UNCHANGED <<tree, handle, ret, call, unsaved, savedLog, memoryVars, recentProjects,
                 showWelcome, projectError, permissionRetryProjectId, attempt,
                 orderVars, editVars, detectVars>>

\* onDeleteProject, confirmed by the user: deleteProject(projectRootPath),
\* then the recent projects, the active project and the project in memory.
OnDeleteProject ==
  /\ projectRootPath # Null
  /\ \E lsEnv \in StorageEnvironments, dbEnv \in DbEnvironments :
       LET deleted == deleteProject(stored, handle, lsEnv, dbEnv)
       IN /\ stored' = deleted.state
          /\ handle' = deleted.handle
          /\ recentProjects' = RecentAfterDelete(recentProjects, projectRootPath.v, lsEnv)
          /\ activeProject' = safeLocalStorage_remove(activeProject, lsEnv).slot
          /\ storageCall' = [k |-> "deleteProject", lsEnv |-> lsEnv, dbEnv |-> dbEnv,
                              status |-> deleted.status]
  /\ photos' = <<>>
  /\ projectRootPath' = Null
  /\ projectName' = "No Project"
  /\ showWelcome' = TRUE
  /\ UNCHANGED <<tree, ret, call, unsaved, savedLog, projectFolderLabel, projectSettings,
                 dayLabels, dayContainers, projectError, permissionRetryProjectId,
                 attempt, orderVars, editVars, detectVars>>

NextStore == OpenProject \/ OnDeleteProject \/ SafeGet \/ SafeSet \/ SafeRemove

SpecStore == InitStore /\ [][NextStore]_vars

(***************************************************************************)
(* Storage: properties                                                     *)
(***************************************************************************)
\* C24: after deleteProject has resolved, storage holds neither a serialized
\* state nor a folder handle for the project.
C24_DeleteRemovesStateAndHandle ==
  storageCall.k = "deleteProject" => (stored = NoState /\ ~handle)

\* C25: safeLocalStorage.get, set and remove never throw, whatever
\* localStorage does, and get returns null when localStorage throws.
C25_SafeStorageNeverThrows ==
  storageCall.k \in {"get", "set", "remove"} =>
    /\ ~storageCall.threw
    /\ (storageCall.k = "get" /\ storageCall.env = "blocked") => storageCall.value = Null

(***************************************************************************)
(* Editing a project: properties                                           *)
(***************************************************************************)
ArchivedInX(photo) == photo.archived => photo.bucket = Some("X")

\* C13: in every state of a project, after initProject, after getState and
\* after any sequence of assignBucket, removeDayAssignment, toggleFavorite,
\* undo and redo, every archived photo has bucket 'X': the photos in memory,
\* the photos getState returned, the snapshots of the history and the edits
\* stored.
C13_ArchivedHasBucketX ==
  /\ \A n \in 1..Len(photos) : ArchivedInX(photos[n])
  /\ ret.status = "resolved" =>
       \A n \in 1..Len(ret.state.photos) : ArchivedInX(ret.state.photos[n])
  /\ \A h \in 1..Len(history) : \A n \in 1..Len(history[h]) : ArchivedInX(history[h][n])
  /\ (stored # NoState /\ IsSome(stored.edits)) =>
       \A n \in 1..Len(stored.edits.v) : ArchivedInX(stored.edits.v[n])

\* An undo has brought back an archived photo that a bucket assignment had
\* taken out of the archive.
C13_Witness ==
  /\ lastEdit # NoCall
  /\ lastEdit.k = "undo"
  /\ Len(history) = 2
  /\ photos[1].archived
  /\ ~history[2][1].archived

\* C14: after each user mutation (bucket assignment, day assignment or
\* removal, favorite toggle, rename, undo, redo, day-label edit) the state
\* stored under the project's key holds the photos and the day labels that
\* are in memory.
C14_StoredStateIsCurrent ==
  lastEdit # NoCall =>
    /\ stored # NoState
    /\ stored.edits = Some(SeqMap(EditOf, photos))
    /\ stored.dayLabels = dayLabels

====
